---- MODULE Spec2Model ----
(***************************************************************************)
(* pycosio: the mount registry of pycosio._core.storage_manager and the    *)
(* write path of the Azure block blob buffered stream                      *)
(* (pycosio.storage.azure_blob._block_blob).                               *)
(*                                                                         *)
(* Strings are sequences of character codes (ASCII).  Python objects that  *)
(* are shared by reference (the storage_info dicts, the storage_parameters *)
(* dicts, the system instances) live in heaps indexed by small integers.   *)
(***************************************************************************)
EXTENDS Integers, Sequences, FiniteSets, TLC

\* Python's None, as the value of a string or flag argument.
None == "None"

\* ------------------------------------------------------------------------
\* Bounds of the model.
\* ------------------------------------------------------------------------
\* Total number of bytes the caller writes to the buffered stream.
MaxBytes == 4
\* Largest size of one write() call.
MaxWrite == 3

\* buffer_size, max_buffers and max_workers given to the constructor.
BufferSizes == {1, 2}
MaxBuffersChoices == {0, 1, 2}
MaxWorkersChoices == {1, 2}
\* Largest size of the object a raw stream is opened on, and of the bytes
\* written to a raw stream.
MaxSize == 4
\* Largest length of the buffer given to readinto.
MaxRead == 3
\* Block ids _get_random_block_id can return (opaque tokens).
BlockIds == 1 .. (MaxBytes + 1)
\* Id of the block of an object that exists before the stream is opened.
OldBlockId == 0

\* ------------------------------------------------------------------------
\* Generic helpers.
\* ------------------------------------------------------------------------
Range(s) == {s[i] : i \in DOMAIN s}


\* The bytes the caller writes: the byte at absolute offset k (1-based) is k,
\* so any loss, duplication or reordering of bytes is visible.
Bytes(from, n) == [i \in 1 .. n |-> from + i]

\* ========================================================================
\* Mount registry (pycosio._core.storage_manager)
\* ========================================================================
\* Largest number of system instances constructed in one behaviour.
MaxSystems == 2

Threads == {"t1", "t2"}

\* "://"
SchemeSep == <<58, 47, 47>>

\* Roots are literal strings or compiled patterns.
Literal(s) == [pattern |-> FALSE, s |-> s]
Pattern(s) == [pattern |-> TRUE, s |-> s]

\* "d://", "d://s/" and the pattern "d.//s"
RootD == Literal(<<100>> \o SchemeSep)
RootDS == Literal(<<100>> \o SchemeSep \o <<115, 47>>)
PatternDS == Pattern(<<100, 46, 47, 47, 115>>)

\* The modules pycosio.storage.<name> that can be imported: "d" and "e".
StorageD == <<100>>
StorageE == <<101>>
Modules == {StorageD, StorageE}

\* The roots the system class of each module reports (system_cached.roots).
SystemRoots(storage) ==
    IF storage = StorageD THEN <<RootD>> ELSE <<RootDS, PatternDS>>

\* "https" and "http"
Https == <<104, 116, 116, 112, 115>>
Http == <<104, 116, 116, 112>>

\* File names given by the callers:
\* "d://s/x", "d://sx", "D://x", "x" and "https://x".
Names == {<<100>> \o SchemeSep \o <<115, 47, 120>>,
          <<100>> \o SchemeSep \o <<115, 120>>,
          <<68>> \o SchemeSep \o <<120>>,
          <<120>>,
          Https \o SchemeSep \o <<120>>}

\* A storage or a root that is not given (None) is the empty string.
NoStorage == <<>>
NoRoot == Literal(<<>>)

\* storage argument of get_instance: not given, "e".
StorageArgs == {NoStorage, StorageE}
\* extra_root argument of mount: not given, "d://s/".
ExtraRootArgs == {NoRoot, RootDS}
\* unsecure argument: not given, True, False.
\* A storage_parameters dict holds the user's key 'k' and, once get_instance
\* has put it there, the key 'pycosio.system_cached'; the value 0 stands for
\* a key the dict does not have.  NoDict is storage_parameters = None.
NoDict == [dict |-> FALSE, k |-> 0, system_cached |-> 0]
Dict(k) == [dict |-> TRUE, k |-> k, system_cached |-> 0]
\* The unsecure and storage_parameters arguments of the calls: none,
\* unsecure=True, unsecure=False with storage_parameters={'k': 1}.
ParametersArgs ==
    {[unsecure |-> None, storage_parameters |-> NoDict],
     [unsecure |-> "True", storage_parameters |-> NoDict],
     [unsecure |-> "False", storage_parameters |-> Dict(1)]}
\* The arguments of the calls of mount: a storage "d" or "e", with a name
\* that is ignored, any of the parameters and an extra root or none; or a
\* name alone.
MountArgs ==
    {[storage |-> st, name |-> <<>>, parameters |-> p, extra_root |-> x] :
        st \in {StorageD, StorageE}, p \in ParametersArgs, x \in ExtraRootArgs}
      \cup {[storage |-> NoStorage, name |-> n,
             parameters |-> [unsecure |-> None, storage_parameters |-> NoDict],
             extra_root |-> NoRoot] : n \in Names}
\* cls argument of get_instance.
ClsArgs == {"system", "raw", "buffered"}

VARIABLES
    MOUNTED,      \* the OrderedDict, as the sequence of its items [root, info]
    infos,        \* heap of the storage_info dicts made by mount
    systems,      \* the system instances constructed, by what constructed them
    lock_owner,   \* thread holding _MOUNT_LOCK, or None
    thread,       \* per thread: position in get_instance or mount, locals
    returned      \* what the call that has just ended returned or raised

rvars == <<MOUNTED, infos, systems, lock_owner, thread, returned>>

\* The state of one buffered stream opened for writing.
VARIABLES
    buffer_size,        \* self._buffer_size
    max_buffers,        \* self._max_buffers
    max_workers,        \* size of the executor behind self._workers
    wpc,                \* position of the caller thread in write()/close()
    size_left,          \* write(): bytes of the argument not yet copied
    copied,             \* bytes copied from the caller so far
    write_buffer,       \* self._write_buffer[:self._buffer_seek]
    write_futures,      \* self._write_futures: [seq, block_id, block, state]
    blocks,             \* self._blocks: ids of BlobBlock, in list order
    wait_idx,           \* _close_writable: index of the future waited on
    block_list,         \* _close_writable: committed ids get_block_list gave
    uncommitted,        \* service: staged blocks, id -> bytes
    committed_blocks,   \* service: committed block list of the blob
    put_block_list_calls, \* every block_list passed to put_block_list
    create_blob_calls,  \* every body passed to create_blob_from_bytes
    out_of_order,       \* an upload finished before one submitted earlier
    max_outstanding,    \* highest number of unfinished uploads seen
    raised              \* an exception reached the caller of close()

wvars == <<buffer_size, max_buffers, max_workers, wpc, size_left, copied,
           write_buffer, write_futures, blocks, wait_idx, block_list,
           uncommitted, committed_blocks, put_block_list_calls,
           create_blob_calls, out_of_order, max_outstanding, raised>>

\* The state of one raw stream (ObjectIOBase and the raw stream over it) and
\* of the object it is opened on.
VARIABLES
    raw_mode,           \* self._mode
    raw_readable,       \* self._readable
    raw_writable,       \* self._writable
    raw_seekable,       \* self._seekable
    raw_seek,           \* self._seek, the stream position
    raw_object,         \* service: the bytes of the object
    raw_written,        \* the bytes given to write() so far
    raw_b,              \* the caller's buffer b of the last readinto(b)
    raw_result,         \* what the last call on the stream returned
    raw_stream,         \* "none", "open" or "closed"
    raw_dirty,          \* the write buffer holds what no flush has written
    raw_calls,          \* service: the bodies of the create_blob_from_bytes
    raw_lock,           \* who holds self._seek_lock
    raw_update          \* the position update of the worker that holds it

iovars == <<raw_mode, raw_readable, raw_writable, raw_seekable, raw_seek,
            raw_object, raw_written, raw_b, raw_result, raw_stream,
            raw_dirty, raw_calls, raw_lock, raw_update>>

\* Memoized accessors of stream instances (ObjectIOBase._memoize).
VARIABLES
    memo_cache,         \* self._cache of each instance
    memo_runs,          \* how often each method returned for each instance
    memo_result         \* what the last call of an accessor returned

mvars == <<memo_cache, memo_runs, memo_result>>

\* A buffered stream opened for reading, its prefetch tasks and its object.
VARIABLES
    rd_object,          \* service: the bytes of the object
    rd_buffer_size,     \* the size of a chunk
    rd_max_buffers,     \* how many chunks are prefetched ahead
    rd_seek,            \* the position of the stream
    rd_window,          \* the prefetch tasks of the window, by offset
    rd_orphans,         \* offsets of the invalidated tasks still running
    rd_call,            \* the read call in progress
    rd_out,             \* the bytes returned since the last seek
    rd_base,            \* the position the last seek set
    rd_late,            \* an invalidated task completed since that seek
    rd_end,             \* the end of the range prefetched last
    rd_result           \* what the last call returned

dvars == <<rd_object, rd_buffer_size, rd_max_buffers, rd_seek, rd_window,
           rd_orphans, rd_call, rd_out, rd_base, rd_late, rd_end,
           rd_result>>

\* copy between paths, the mounted systems and their objects.
VARIABLES
    cp_objects,         \* the content of each path
    cp_raise_on_copy,   \* system.raise_on_copy of each system
    cp_copied,          \* system.copied of each system
    cp_result           \* what the last copy did

cvars == <<cp_objects, cp_raise_on_copy, cp_copied, cp_result>>

\* The blobs of an Azure account and the construction of a stream on one.
VARIABLES
    bl_objects,         \* the blob type of the object of each path, or None
    bl_result           \* what the last construction of a stream made

bvars == <<bl_objects, bl_result>>

\* What each part of the program leaves alone.
NotRegistry == <<wvars, iovars, mvars, dvars, cvars, bvars>>
NotWrite == <<rvars, iovars, mvars, dvars, cvars, bvars>>
NotRaw == <<rvars, wvars, mvars, dvars, cvars, bvars>>
NotMemo == <<rvars, wvars, iovars, dvars, cvars, bvars>>
NotRead == <<rvars, wvars, iovars, mvars, cvars, bvars>>
NotCopy == <<rvars, wvars, iovars, mvars, dvars, bvars>>
NotBlob == <<rvars, wvars, iovars, mvars, dvars, cvars>>

\* ---- strings -------------------------------------------------------------
\* name.startswith(root)
StartsWith(name, prefix) ==
    /\ Len(prefix) <= Len(name)
    /\ \A i \in DOMAIN prefix : name[i] = prefix[i]

\* root.match(name) for the patterns of the model: every character of the
\* pattern matches itself, except "." which matches any character.
PatternMatch(pat, name) ==
    /\ Len(pat) <= Len(name)
    /\ \A i \in DOMAIN pat : pat[i] = 46 \/ name[i] = pat[i]

\* Lines 45-47: the test of get_instance on one root.
Matches(root, name) ==
    IF root.pattern THEN PatternMatch(root.s, name) ELSE StartsWith(name, root.s)

\* '://' in name, and the index of its first occurrence.
SepAt(name, i) ==
    /\ i + 2 <= Len(name)
    /\ SubSeq(name, i, i + 2) = SchemeSep
HasSep(name) == \E i \in DOMAIN name : SepAt(name, i)
FirstSep(name) == CHOOSE i \in DOMAIN name :
                     SepAt(name, i) /\ \A j \in 1 .. (i - 1) : ~SepAt(name, j)

\* str.lower()
LowerNot(str) == str
Lower(str) == [i \in DOMAIN str |->
                 IF str[i] >= 65 /\ str[i] <= 90 THEN str[i] + 32 ELSE str[i]]

\* Lines 117-119: storage inferred from the name.
InferStorage(name) ==
    LET scheme == Lower(SubSeq(name, 1, FirstSep(name) - 1))
    IN IF scheme = Https THEN Http ELSE scheme

\* a < b for Python strings: lexicographic on the character codes.
RECURSIVE StrLess(_, _)
StrLess(a, b) ==
    IF b = <<>> THEN FALSE
    ELSE IF a = <<>> THEN TRUE
    ELSE IF a[1] # b[1] THEN a[1] < b[1]
    ELSE StrLess(Tail(a), Tail(b))

\* _compare_root: the pattern string of a pattern, the root itself otherwise.
CompareRoot(root) == root.s

\* ---- the registry --------------------------------------------------------
Reverse(seq) == [i \in DOMAIN seq |-> seq[Len(seq) + 1 - i]]

\* sorted(keys, key=_compare_root): ascending and stable.
RECURSIVE InsertSorted(_, _)
InsertSorted(sorted, item) ==
    IF sorted = <<>> THEN <<item>>
    ELSE IF StrLess(CompareRoot(item.root), CompareRoot(sorted[Len(sorted)].root))
         THEN Append(InsertSorted(SubSeq(sorted, 1, Len(sorted) - 1), item),
                     sorted[Len(sorted)])
         ELSE Append(sorted, item)

RECURSIVE Sorted(_)
Sorted(items) ==
    IF items = <<>> THEN <<>>
    ELSE InsertSorted(Sorted(SubSeq(items, 1, Len(items) - 1)), items[Len(items)])

\* Lines 162-166: the items in reversed sorted order of their roots.
ReorderAscending(items) == Sorted(items)
Reorder(items) == Reverse(Sorted(items))

\* MOUNTED[root] = storage_info: the value of an existing key is replaced
\* in place, a new key is added at the end.
SetDefault(items, root, info) ==
    IF \E i \in DOMAIN items : items[i].root = root THEN items
    ELSE Append(items, [root |-> root, info |-> info])
SetItemAppend(items, root, info) ==
    Append(items, [root |-> root, info |-> info])
SetItem(items, root, info) ==
    IF \E i \in DOMAIN items : items[i].root = root
    THEN [i \in DOMAIN items |->
            IF items[i].root = root THEN [root |-> root, info |-> info]
            ELSE items[i]]
    ELSE Append(items, [root |-> root, info |-> info])

\* Lines 158-159: for root in roots: MOUNTED[root] = storage_info
RECURSIVE SetItems(_, _, _)
SetItems(items, roots, info) ==
    IF roots = <<>> THEN items
    ELSE SetItems(SetItem(items, Head(roots), info), Tail(roots), info)

\* Lines 44-48: index of the first item of MOUNTED whose root matches the
\* name, 0 when the loop ends without a break.
Lookup(items, name) ==
    IF \E i \in DOMAIN items : Matches(items[i].root, name)
    THEN CHOOSE i \in DOMAIN items :
            /\ Matches(items[i].root, name)
            /\ \A j \in 1 .. (i - 1) : ~Matches(items[j].root, name)
    ELSE 0

\* ---- system parameters ---------------------------------------------------
\* _system_parameters(unsecure=..., storage_parameters=...): the arguments
\* that are not None.  A key whose value is None here is absent of the dict.
SystemParameters(unsecure, storage_parameters) ==
    [unsecure |-> unsecure, storage_parameters |-> storage_parameters]

EmptyParameters == SystemParameters(None, NoDict)

\* Lines 60-62: system_parameters.update of the keys it does not have.
UpdateMissingStoredWins(system_parameters, stored_parameters) ==
    [unsecure |-> IF stored_parameters.unsecure # None
                  THEN stored_parameters.unsecure
                  ELSE system_parameters.unsecure,
     storage_parameters |-> IF stored_parameters.storage_parameters.dict
                            THEN stored_parameters.storage_parameters
                            ELSE system_parameters.storage_parameters]
UpdateMissing(system_parameters, stored_parameters) ==
    [unsecure |-> IF system_parameters.unsecure = None
                  THEN stored_parameters.unsecure
                  ELSE system_parameters.unsecure,
     storage_parameters |-> IF ~system_parameters.storage_parameters.dict
                            THEN stored_parameters.storage_parameters
                            ELSE system_parameters.storage_parameters]

\* Lines 52-58: same_parameters.
SameParametersIfEqual(system_parameters, stored_parameters) ==
    system_parameters = stored_parameters
SameParameters(system_parameters, stored_parameters) ==
    \/ system_parameters = EmptyParameters
    \/ system_parameters = stored_parameters

\* ---- threads -------------------------------------------------------------
\* A thread that is in neither get_instance nor mount.  The field given
\* keeps the system_parameters of line 39 as the caller gave them; storage
\* and extra_root are the locals of mount.
Idle ==
    [pc |-> "idle", name |-> <<>>, cls |-> None,
     system_parameters |-> EmptyParameters, given |-> EmptyParameters,
     in_get_instance |-> FALSE, info |-> 0, root |-> NoRoot,
     same_parameters |-> FALSE, alias |-> "no",
     storage |-> NoStorage, extra_root |-> NoRoot]

\* What the call that has just ended returned.  For get_instance: the
\* system instance (of the stream, for a raw or buffered class), whether the
\* call constructed it, and then the roots and the parameters given to the
\* constructor.  For mount: the system cached in storage_info.  Or the
\* exception raised.
Result(t, kind, th, system, constructed, roots, system_parameters) ==
    [thread |-> t, kind |-> kind, system |-> system,
     constructed |-> constructed, roots |-> roots,
     system_parameters |-> system_parameters, info |-> th.info,
     root |-> th.root, name |-> th.name, cls |-> th.cls, given |-> th.given,
     same_parameters |-> th.same_parameters, storage |-> th.storage,
     in_get_instance |-> th.in_get_instance]

NoResult == Result(None, "none", Idle, 0, FALSE, <<>>, EmptyParameters)

RInit ==
    /\ MOUNTED = <<>>
    /\ infos = <<>>
    /\ systems = <<>>
    /\ lock_owner = None
    /\ thread = [t \in Threads |-> Idle]
    /\ returned = NoResult

\* A system instance is constructed: info['system'](**system_parameters).
NewSystem(by) == Append(systems, by)

\* The dict the local variable system_parameters of get_instance refers to:
\* the stored dict itself after line 54, else a dict of its own whose
\* 'storage_parameters' value can be the stored storage_parameters dict
\* (line 60, or the dict handed to the implicit mount at line 67).
CurrentParameters(th) ==
    IF th.alias = "dict" THEN infos[th.info].system_parameters
    ELSE IF th.alias = "storage_parameters"
    THEN [th.system_parameters EXCEPT
            !.storage_parameters = infos[th.info].system_parameters.storage_parameters]
    ELSE th.system_parameters

\* Lines 50-62, for the caller's system_parameters and the stored ones:
\* the locals same_parameters and system_parameters, and what the latter
\* shares with the stored dict.
Compared(system_parameters, stored_parameters) ==
    LET same == SameParameters(system_parameters, stored_parameters)
    IN [same_parameters |-> same,
        system_parameters |->
            IF same THEN system_parameters
            ELSE UpdateMissing(system_parameters, stored_parameters),
        \* "stored_parameters = info.get(...) or dict()": an empty stored dict
        \* is replaced by a new one.
        alias |->
            IF system_parameters = EmptyParameters
            THEN (IF stored_parameters = EmptyParameters THEN "no" ELSE "dict")
            ELSE IF ~same /\ ~system_parameters.storage_parameters.dict
                        /\ stored_parameters.storage_parameters.dict
            THEN "storage_parameters" ELSE "no"]

\* Lines 39-63: get_instance is called and, with _MOUNT_LOCK, finds a root
\* that matches the name.  The lock is released when the with block is left.
GetInstanceFound(t, name, cls, storage_parameters, unsecure) ==
    LET i == Lookup(MOUNTED, name)
    IN /\ returned = NoResult
       /\ thread[t].pc = "idle"
       /\ lock_owner = None
       /\ i # 0
       /\ LET c == Compared(SystemParameters(unsecure, storage_parameters),
                            infos[MOUNTED[i].info].system_parameters)
          IN thread' = [thread EXCEPT ![t] =
                [Idle EXCEPT
                   !.pc = "gi_return", !.name = name, !.cls = cls,
                   !.in_get_instance = TRUE,
                   !.given = SystemParameters(unsecure, storage_parameters),
                   !.info = MOUNTED[i].info, !.root = MOUNTED[i].root,
                   !.same_parameters = c.same_parameters,
                   !.system_parameters = c.system_parameters,
                   !.alias = c.alias]]
       /\ returned' = NoResult
       /\ UNCHANGED <<MOUNTED, infos, systems, lock_owner>>
    /\ UNCHANGED NotRegistry

\* Lines 115-119: the storage of a mount.
StorageOf(storage, name) ==
    IF storage = NoStorage THEN InferStorage(name) ELSE storage

\* The exceptions of mount before anything is mounted: no storage given and
\* none to infer from the name (lines 115-122), a storage module that does
\* not exist (line 130), a system class whose constructor raises (line 144).
MountRaises(storage, name, error) ==
    IF storage = NoStorage /\ ~HasSep(name) THEN error = "ValueError"
    ELSE IF StorageOf(storage, name) \notin Modules THEN error = "ImportError"
    ELSE error = "SystemError"

\* The local variable storage of mount when it raises: as given at line
\* 121, the name of the module at lines 130 and 144.
RaisedStorage(storage, name, error) ==
    IF error = "ValueError" THEN storage ELSE StorageOf(storage, name)

\* MOUNTED when mount raises: lines 115-144 are before the with block of
\* line 157, so that no root was set.
MountedAtRaiseCleared(items) == <<>>
MountedAtRaise(items) == items

\* Lines 147-154: the roots of the system, with the extra root.
MountRoots(storage, extra_root) ==
    IF extra_root # NoRoot THEN Append(SystemRoots(storage), extra_root)
    ELSE SystemRoots(storage)

\* Lines 114-154: storage_info is built and a system instance is cached in
\* it.  The dict is in the heap though no root refers to it yet.
MountPrepare(t, storage, name, system_parameters, extra_root) ==
    /\ storage # NoStorage \/ HasSep(name)
    /\ StorageOf(storage, name) \in Modules
    /\ Len(systems) < MaxSystems
    /\ LET module == StorageOf(storage, name)
           roots == MountRoots(module, extra_root)
       IN /\ systems' = NewSystem("mount")
          /\ infos' = Append(infos,
                 [system_parameters |-> system_parameters,
                  system_cached |-> Len(systems) + 1,
                  roots |-> roots, storage |-> module])

\* _MOUNT_LOCK while get_instance runs the mount of line 67: held by the
\* thread, which entered the with block at line 43.
LockReleasedForMount(t) == None
LockHeldForMount(t) == t

\* Lines 39-48 and 65-67: get_instance is called and, with _MOUNT_LOCK,
\* finds no root that matches the name, so it calls mount, which builds
\* storage_info.
GetInstanceMount(t, name, cls, storage, storage_parameters, unsecure) ==
    /\ returned = NoResult
    /\ thread[t].pc = "idle"
    /\ lock_owner = None
    /\ Lookup(MOUNTED, name) = 0
    /\ MountPrepare(t, storage, name,
                    SystemParameters(unsecure, storage_parameters), NoRoot)
    /\ lock_owner' = LockHeldForMount(t)
    /\ thread' = [thread EXCEPT ![t] =
          [Idle EXCEPT
             !.pc = "m_insert", !.name = name, !.cls = cls,
             !.in_get_instance = TRUE,
             !.info = Len(infos) + 1,
             !.storage = StorageOf(storage, name),
             !.given = SystemParameters(unsecure, storage_parameters),
             !.system_parameters = SystemParameters(unsecure, storage_parameters)]]
    /\ returned' = NoResult
    /\ UNCHANGED MOUNTED
    /\ UNCHANGED NotRegistry

\* The same, when mount raises: the exception leaves the with block of
\* get_instance, which releases the lock.
GetInstanceRaises(t, name, storage, error) ==
    /\ returned = NoResult
    /\ thread[t].pc = "idle"
    /\ lock_owner = None
    /\ Lookup(MOUNTED, name) = 0
    /\ MountRaises(storage, name, error)
    /\ thread' = [thread EXCEPT ![t] = Idle]
    /\ returned' = Result(t, error,
                          [Idle EXCEPT !.name = name, !.in_get_instance = TRUE,
                              !.storage = RaisedStorage(storage, name, error)],
                          0, FALSE, <<>>, EmptyParameters)
    /\ MOUNTED' = MountedAtRaise(MOUNTED)
    /\ UNCHANGED <<infos, systems, lock_owner>>
    /\ UNCHANGED NotRegistry

\* mount is called by the user and builds storage_info (lines 114-154).
Mount(t, storage, name, storage_parameters, unsecure, extra_root) ==
    /\ returned = NoResult
    /\ thread[t].pc = "idle"
    /\ MountPrepare(t, storage, name,
                    SystemParameters(unsecure, storage_parameters), extra_root)
    /\ thread' = [thread EXCEPT ![t] =
          [Idle EXCEPT !.pc = "m_insert", !.info = Len(infos) + 1,
                       !.name = name, !.storage = StorageOf(storage, name),
                       !.extra_root = extra_root]]
    /\ returned' = NoResult
    /\ UNCHANGED <<MOUNTED, lock_owner>>
    /\ UNCHANGED NotRegistry

\* mount is called by the user and raises.
MountError(t, storage, name, error) ==
    /\ returned = NoResult
    /\ thread[t].pc = "idle"
    /\ MountRaises(storage, name, error)
    /\ thread' = [thread EXCEPT ![t] = Idle]
    /\ returned' = Result(t, error,
                          [Idle EXCEPT !.name = name,
                              !.storage = RaisedStorage(storage, name, error)],
                          0, FALSE, <<>>, EmptyParameters)
    /\ MOUNTED' = MountedAtRaise(MOUNTED)
    /\ UNCHANGED <<infos, systems, lock_owner>>
    /\ UNCHANGED NotRegistry

\* Line 13: _MOUNT_LOCK is an RLock, which a thread acquires when no thread
\* holds it or when it holds it itself.
AcquiredByNoneOnly(t) == lock_owner = None
Acquirable(t) == lock_owner \in {None, t}

\* Lines 157-168: with _MOUNT_LOCK (an RLock: the thread that holds it
\* enters), the roots are set and MOUNTED is reordered.  Back in
\* get_instance (lines 67-68) the with block is left and the lock released.
MountInsert(t) ==
    LET th == thread[t]
    IN /\ returned = NoResult
       /\ th.pc = "m_insert"
       /\ Acquirable(t)
       /\ MOUNTED' = Reorder(SetItems(MOUNTED, infos[th.info].roots, th.info))
       /\ lock_owner' = None
       /\ thread' = [thread EXCEPT ![t] =
             IF th.in_get_instance
             THEN [th EXCEPT !.pc = "gi_return", !.same_parameters = TRUE,
                             !.alias =
                                 IF th.system_parameters.storage_parameters.dict
                                 THEN "storage_parameters" ELSE "no"]
             ELSE Idle]
       /\ returned' = IF th.in_get_instance THEN NoResult
                      ELSE Result(t, "info", th, infos[th.info].system_cached,
                                  TRUE, infos[th.info].roots,
                                  infos[th.info].system_parameters)
       /\ UNCHANGED <<infos, systems>>
    /\ UNCHANGED NotRegistry

\* Lines 71-76: the system class is asked for.
GIReturnSystem(t) ==
    LET th == thread[t]
        info == infos[th.info]
    IN /\ returned = NoResult
       /\ th.pc = "gi_return"
       /\ th.cls = "system"
       /\ IF th.same_parameters
          THEN /\ returned' = Result(t, "system", th, info.system_cached, FALSE,
                                     <<>>, EmptyParameters)
               /\ UNCHANGED systems
          ELSE /\ Len(systems) < MaxSystems
               /\ systems' = NewSystem("get_instance")
               /\ returned' = Result(t, "system", th, Len(systems) + 1, TRUE,
                                     info.roots, CurrentParameters(th))
       /\ thread' = [thread EXCEPT ![t] = Idle]
       /\ UNCHANGED <<MOUNTED, infos, lock_owner>>
    /\ UNCHANGED NotRegistry

\* Lines 79-83: system_parameters['storage_parameters'][
\* 'pycosio.system_cached'] = info['system_cached'], in a new dict when
\* system_parameters has no 'storage_parameters'.
WithSystemCached(system_parameters, system_cached) ==
    [system_parameters EXCEPT
        !.storage_parameters =
            IF ~system_parameters.storage_parameters.dict
            THEN [dict |-> TRUE, k |-> 0, system_cached |-> system_cached]
            ELSE [system_parameters.storage_parameters EXCEPT
                     !.system_cached = system_cached]]

\* Lines 78-86: a raw or buffered class is asked for.  The stream uses the
\* system found under 'pycosio.system_cached' in its storage parameters and
\* constructs one of its own when there is none.
GIReturnStream(t) ==
    LET th == thread[t]
        info == infos[th.info]
        before == CurrentParameters(th)
        kwargs == IF th.same_parameters
                  THEN WithSystemCached(before, info.system_cached)
                  ELSE before
    IN /\ returned = NoResult
       /\ th.pc = "gi_return"
       /\ th.cls # "system"
       /\ infos' = IF th.same_parameters /\ th.alias # "no"
                   THEN [infos EXCEPT ![th.info].system_parameters = kwargs]
                   ELSE infos
       /\ IF kwargs.storage_parameters.system_cached # 0
          THEN /\ UNCHANGED systems
               /\ returned' = Result(t, "stream", th,
                                     kwargs.storage_parameters.system_cached,
                                     FALSE, <<>>, EmptyParameters)
          ELSE /\ Len(systems) < MaxSystems
               /\ systems' = NewSystem("stream")
               /\ returned' = Result(t, "stream", th, Len(systems) + 1, TRUE,
                                     SystemRoots(info.storage), kwargs)
       /\ thread' = [thread EXCEPT ![t] = Idle]
       /\ UNCHANGED <<MOUNTED, lock_owner>>
    /\ UNCHANGED NotRegistry

MountErrors == {"ValueError", "ImportError", "SystemError"}

\* The caller has the result of the call, or its exception.
Returned ==
    /\ returned # NoResult
    /\ returned' = NoResult
    /\ UNCHANGED <<MOUNTED, infos, systems, lock_owner, thread>>
    /\ UNCHANGED NotRegistry

\* The calls of one thread, with all the arguments of the model.
RNext ==
    \/ \E name \in Names, cls \in ClsArgs, p \in ParametersArgs :
          GetInstanceFound("t1", name, cls, p.storage_parameters, p.unsecure)
    \/ \E name \in Names, cls \in ClsArgs, storage \in StorageArgs,
          p \in ParametersArgs :
          GetInstanceMount("t1", name, cls, storage, p.storage_parameters,
                           p.unsecure)
    \/ \E name \in Names, storage \in StorageArgs, error \in MountErrors :
          GetInstanceRaises("t1", name, storage, error)
    \/ \E a \in MountArgs :
          Mount("t1", a.storage, a.name, a.parameters.storage_parameters,
                a.parameters.unsecure, a.extra_root)
    \/ \E a \in MountArgs, error \in MountErrors :
          MountError("t1", a.storage, a.name, error)
    \/ MountInsert("t1")
    \/ GIReturnSystem("t1")
    \/ GIReturnStream("t1")
    \/ Returned

\* The calls of concurrent threads, on the names "d://x" and "D://x".
ThreadsNames == {<<100>> \o SchemeSep \o <<120>>, <<68>> \o SchemeSep \o <<120>>}
ThreadsParametersArgs ==
    {[unsecure |-> None, storage_parameters |-> NoDict],
     [unsecure |-> None, storage_parameters |-> Dict(1)]}

RNextThreads ==
    \/ \E t \in Threads, name \in ThreadsNames, cls \in ClsArgs,
          p \in ThreadsParametersArgs :
          GetInstanceFound(t, name, cls, p.storage_parameters, p.unsecure)
    \/ \E t \in Threads, name \in ThreadsNames, cls \in ClsArgs,
          p \in ThreadsParametersArgs :
          GetInstanceMount(t, name, cls, NoStorage, p.storage_parameters,
                           p.unsecure)
    \/ \E t \in Threads, name \in ThreadsNames :
          GetInstanceRaises(t, name, NoStorage, "SystemError")
    \/ \E t \in Threads, p \in ThreadsParametersArgs :
          Mount(t, StorageD, <<>>, p.storage_parameters, p.unsecure, NoRoot)
    \/ \E t \in Threads : MountError(t, StorageD, <<>>, "SystemError")
    \/ \E t \in Threads : MountInsert(t)
    \/ \E t \in Threads : GIReturnSystem(t)
    \/ \E t \in Threads : GIReturnStream(t)
    \/ Returned

\* ========================================================================
\* Buffered write stream (AzureBlockBlobBufferedIO over ObjectBufferedIOBase)
\* ========================================================================

\* Uploads submitted and not yet finished (future.done() is False).
Outstanding ==
    Cardinality({i \in DOMAIN write_futures :
                    write_futures[i].state \in {"pending", "running"}})

Running ==
    Cardinality({i \in DOMAIN write_futures :
                    write_futures[i].state = "running"})

\* Ids that are in use for the blob: staged, committed, or handed out.
UsedBlockIds ==
    DOMAIN uncommitted \cup {committed_blocks[i].id : i \in DOMAIN committed_blocks}
      \cup Range(blocks)

\* _get_random_block_id(32): 32 random lowercase letters.  The 26^32 ids are
\* opaque tokens, abstracted to BlockIds up to renaming: an id never repeats
\* one in use, and the two smallest unused ids stand for all the others, so
\* the order of the ids is independent of the order of submission.
GetRandomBlockIds ==
    LET free == BlockIds \ UsedBlockIds
    IN {x \in free : Cardinality({y \in free : y < x}) < 2}

\* _flush, line 118: self._blocks.append(BlobBlock(id=block_id))
SaveBlockFirst(blks, block_id) == <<block_id>> \o blks
SaveBlock(blks, block_id) == Append(blks, block_id)

\* _flush, lines 113-115: self._write_futures.append(self._workers.submit(...))
SubmitPadded(futures, block_id, block) ==
    Append(futures, [seq |-> Len(futures) + 1, block_id |-> block_id,
                     block |-> block \o [i \in 1 .. (buffer_size - Len(block)) |-> 0],
                     state |-> "pending"])
Submit(futures, block_id, block) ==
    Append(futures, [seq |-> Len(futures) + 1, block_id |-> block_id,
                     block |-> block, state |-> "pending"])

\* AzureBlockBlobBufferedIO._flush: upload the buffer as one block with the
\* workers and save the block information.  _get_buffer() is the filled part
\* of the write buffer.
Flush(block_id) ==
    /\ block_id \in GetRandomBlockIds
    /\ write_futures' = Submit(write_futures, block_id, write_buffer)
    /\ blocks' = SaveBlock(blocks, block_id)
    /\ max_outstanding' = IF Outstanding + 1 > max_outstanding
                          THEN Outstanding + 1 ELSE max_outstanding

\* _close_writable, line 129: block_list.committed_blocks + self._blocks
CommitList(listed, blks) == listed \o blks

\* The service's put_block_list: the blob becomes the listed blocks, in the
\* order of the list, each id taken from the staged blocks or, when it is
\* not staged, from the committed ones.
ServicePutBlockList(list) ==
    [i \in DOMAIN list |->
        [id |-> list[i],
         block |-> IF list[i] \in DOMAIN uncommitted THEN uncommitted[list[i]]
                   ELSE (CHOOSE b \in Range(committed_blocks) :
                            b.id = list[i]).block]]

\* The service's create_blob_from_bytes: the blob becomes the given bytes,
\* as one committed block.
CreateBlobFromBytes(blob) == <<[id |-> OldBlockId, block |-> blob]>>

\* The bytes of a sequence of byte strings, one after the other.
RECURSIVE Concat(_)
Concat(seqs) ==
    IF seqs = <<>> THEN <<>> ELSE Head(seqs) \o Concat(Tail(seqs))

\* The service's content of a block blob: its committed blocks, in order.
BlobBytes(blks) == Concat([i \in DOMAIN blks |-> blks[i].block])

\* AzureBlobRawIO._read_range(start, end): get_blob_to_stream with
\* start_range = start and end_range = end - 1, or no end_range when end
\* is 0; a start at or past the end of the blob is answered with the HTTP
\* status 416, which gives no bytes.
ReadRangeFromOne(object, start, end) ==
    IF start >= Len(object) THEN <<>>
    ELSE SubSeq(object, start + 2,
                IF end = 0 \/ end > Len(object) THEN Len(object) ELSE end)
ReadRange(object, start, end) ==
    IF start >= Len(object) THEN <<>>
    ELSE SubSeq(object, start + 1,
                IF end = 0 \/ end > Len(object) THEN Len(object) ELSE end)

\* AzureBlobRawIO._readall: get_blob_to_stream of the whole blob.
ReadAll(object) == object

\* read() of a buffered stream opened for reading: the object is fetched by
\* ranges of buffer_size bytes from the position on, up to the range that
\* comes back empty.
RECURSIVE ReadChunks(_, _, _)
ReadChunks(object, start, size) ==
    LET chunk == ReadRange(object, start, start + size)
    IN IF chunk = <<>> THEN <<>>
       ELSE chunk \o ReadChunks(object, start + Len(chunk), size)

\* The wait of write() before a submission: with max_buffers > 0, as long as
\* max_buffers uploads are not done, the caller sleeps.
SlotFreeNoLimit == TRUE
SlotFree == max_buffers = 0 \/ Outstanding < max_buffers

WInit ==
    /\ buffer_size \in BufferSizes
    /\ max_buffers \in MaxBuffersChoices
    /\ max_workers \in MaxWorkersChoices
    /\ wpc = "idle"
    /\ size_left = 0
    /\ copied = 0
    /\ write_buffer = <<>>
    /\ write_futures = <<>>
    /\ blocks = <<>>
    /\ wait_idx = 0
    /\ block_list = <<>>
    /\ uncommitted = <<>>
    /\ committed_blocks \in {<<>>, <<[id |-> OldBlockId, block |-> <<0>>]>>}
    /\ put_block_list_calls = <<>>
    /\ create_blob_calls = <<>>
    /\ out_of_order = FALSE
    /\ max_outstanding = 0
    /\ raised = FALSE

\* write(b) is entered with len(b) = n.
Write(n) ==
    /\ wpc = "idle"
    /\ copied + n <= MaxBytes
    /\ wpc' = "write"
    /\ size_left' = n
    /\ UNCHANGED <<buffer_size, max_buffers, max_workers, copied, write_buffer,
                   write_futures, blocks, wait_idx, block_list, uncommitted,
                   committed_blocks, put_block_list_calls, create_blob_calls,
                   out_of_order, max_outstanding, raised>>
    /\ UNCHANGED NotWrite

\* One turn of the copy loop of write(): copy what fits in the buffer; when
\* the argument does not fit, the buffer is full and has to be flushed.
WriteCopy ==
    /\ wpc = "write"
    /\ LET start == Len(write_buffer)
           overflow == start + size_left > buffer_size
           take == IF overflow THEN buffer_size - start ELSE size_left
       IN /\ write_buffer' = write_buffer \o Bytes(copied, take)
          /\ copied' = copied + take
          /\ size_left' = size_left - take
          /\ wpc' = IF overflow THEN "write_flush" ELSE "idle"
    /\ UNCHANGED <<buffer_size, max_buffers, max_workers, write_futures, blocks,
                   wait_idx, block_list, uncommitted, committed_blocks,
                   put_block_list_calls, create_blob_calls, out_of_order,
                   max_outstanding, raised>>
    /\ UNCHANGED NotWrite

\* write(): wait for a free slot, then self._flush() and a cleared buffer.
WriteFlush ==
    /\ wpc = "write_flush"
    /\ SlotFree
    /\ \E block_id \in BlockIds : Flush(block_id)
    /\ write_buffer' = <<>>
    /\ wpc' = "write"
    /\ UNCHANGED <<buffer_size, max_buffers, max_workers, size_left, copied,
                   wait_idx, block_list, uncommitted, committed_blocks,
                   put_block_list_calls, create_blob_calls, out_of_order,
                   raised>>
    /\ UNCHANGED NotWrite

\* Upload i finishes while an upload submitted before it has not.
FinishesEarly(i) ==
    \E j \in 1 .. (i - 1) : write_futures[j].state \in {"pending", "running"}

\* The executor starts the queued calls in submission order, at most
\* max_workers at a time.
WorkerStart(i) ==
    /\ i \in DOMAIN write_futures
    /\ write_futures[i].state = "pending"
    /\ \A j \in 1 .. (i - 1) : write_futures[j].state # "pending"
    /\ Running < max_workers
    /\ write_futures' = [write_futures EXCEPT ![i].state = "running"]
    /\ UNCHANGED <<buffer_size, max_buffers, max_workers, wpc, size_left, copied,
                   write_buffer, blocks, wait_idx, block_list, uncommitted,
                   committed_blocks, put_block_list_calls, create_blob_calls,
                   out_of_order, max_outstanding, raised>>
    /\ UNCHANGED NotWrite

\* self._client.put_block(block=..., block_id=...) returns: the block is
\* staged on the service.
StageBlock(staged, block_id, block) ==
    [x \in DOMAIN staged \cup {block_id} |->
        IF x = block_id THEN block ELSE staged[x]]

WorkerDone(i) ==
    /\ i \in DOMAIN write_futures
    /\ write_futures[i].state = "running"
    /\ write_futures' = [write_futures EXCEPT ![i].state = "done"]
    /\ uncommitted' = StageBlock(uncommitted, write_futures[i].block_id,
                                 write_futures[i].block)
    /\ out_of_order' = (out_of_order \/ FinishesEarly(i))
    /\ UNCHANGED <<buffer_size, max_buffers, max_workers, wpc, size_left, copied,
                   write_buffer, blocks, wait_idx, block_list,
                   committed_blocks, put_block_list_calls, create_blob_calls,
                   max_outstanding, raised>>
    /\ UNCHANGED NotWrite

\* self._client.put_block raises: the future holds the exception.
WorkerFail(i) ==
    /\ i \in DOMAIN write_futures
    /\ write_futures[i].state = "running"
    /\ write_futures' = [write_futures EXCEPT ![i].state = "failed"]
    /\ out_of_order' = (out_of_order \/ FinishesEarly(i))
    /\ UNCHANGED <<buffer_size, max_buffers, max_workers, wpc, size_left, copied,
                   write_buffer, blocks, wait_idx, block_list, uncommitted,
                   committed_blocks, put_block_list_calls, create_blob_calls,
                   max_outstanding, raised>>
    /\ UNCHANGED NotWrite

\* future.result() blocks until the call has finished ...
ResultReadyAtOnce(future) == TRUE
ResultReady(future) == future.state \in {"done", "failed"}

\* ... and raises the exception the call raised, if any.
ResultRaisesNever(future) == FALSE
ResultRaises(future) == future.state = "failed"

\* The single-chunk fast path of close(): no block was submitted, so all
\* that was written is in the buffer.
FastPathNever == FALSE
FastPath == write_futures = <<>>

\* close(), first step: on the fast path the raw stream writes the whole
\* object at once (AzureBlockBlobRawIO._flush), an empty object when nothing
\* was written; otherwise the rest of the buffer is submitted as the last
\* block.
Close ==
    /\ wpc = "idle"
    /\ IF FastPath
       THEN /\ create_blob_calls' = Append(create_blob_calls, write_buffer)
            /\ committed_blocks' = CreateBlobFromBytes(write_buffer)
            /\ wpc' = "closed"
       ELSE /\ wpc' = IF write_buffer = <<>> THEN "close_wait" ELSE "close_flush"
            /\ UNCHANGED <<create_blob_calls, committed_blocks>>
    /\ wait_idx' = 1
    /\ UNCHANGED <<buffer_size, max_buffers, max_workers, size_left, copied,
                   write_buffer, write_futures, blocks, block_list, uncommitted,
                   put_block_list_calls, out_of_order, max_outstanding, raised>>
    /\ UNCHANGED NotWrite

\* close(): self._flush() of the last, partial buffer.
CloseFlush ==
    /\ wpc = "close_flush"
    /\ SlotFree
    /\ \E block_id \in BlockIds : Flush(block_id)
    /\ write_buffer' = <<>>
    /\ wpc' = "close_wait"
    /\ UNCHANGED <<buffer_size, max_buffers, max_workers, size_left, copied,
                   wait_idx, block_list, uncommitted, committed_blocks,
                   put_block_list_calls, create_blob_calls, out_of_order,
                   raised>>
    /\ UNCHANGED NotWrite

\* _close_writable, lines 124-125: future.result() of the next future,
\* in list order; it returns when the upload is done and raises the
\* exception of a failed upload.
CloseWait ==
    /\ wpc = "close_wait"
    /\ IF wait_idx > Len(write_futures)
       THEN /\ wpc' = "get_block_list"
            /\ UNCHANGED <<wait_idx, raised>>
       ELSE /\ ResultReady(write_futures[wait_idx])
            /\ IF ResultRaises(write_futures[wait_idx])
               THEN /\ raised' = TRUE
                    /\ wpc' = "error"
                    /\ UNCHANGED wait_idx
               ELSE /\ wait_idx' = wait_idx + 1
                    /\ UNCHANGED <<wpc, raised>>
    /\ UNCHANGED <<buffer_size, max_buffers, max_workers, size_left, copied,
                   write_buffer, write_futures, blocks, block_list, uncommitted,
                   committed_blocks, put_block_list_calls, create_blob_calls,
                   out_of_order, max_outstanding>>
    /\ UNCHANGED NotWrite

\* _close_writable, line 127: self._client.get_block_list(...)
GetBlockList ==
    /\ wpc = "get_block_list"
    /\ block_list' = [i \in DOMAIN committed_blocks |-> committed_blocks[i].id]
    /\ wpc' = "put_block_list"
    /\ UNCHANGED <<buffer_size, max_buffers, max_workers, size_left, copied,
                   write_buffer, write_futures, blocks, wait_idx, uncommitted,
                   committed_blocks, put_block_list_calls, create_blob_calls,
                   out_of_order, max_outstanding, raised>>
    /\ UNCHANGED NotWrite

\* _close_writable, lines 128-130: self._client.put_block_list(...)
PutBlockList ==
    /\ wpc = "put_block_list"
    /\ LET list == CommitList(block_list, blocks)
       IN /\ put_block_list_calls' = Append(put_block_list_calls, list)
          /\ committed_blocks' = ServicePutBlockList(list)
    /\ uncommitted' = <<>>
    /\ wpc' = "closed"
    /\ UNCHANGED <<buffer_size, max_buffers, max_workers, size_left, copied,
                   write_buffer, write_futures, blocks, wait_idx, block_list,
                   create_blob_calls, out_of_order, max_outstanding, raised>>
    /\ UNCHANGED NotWrite

WNext ==
    \/ \E n \in 1 .. MaxWrite : Write(n)
    \/ WriteCopy
    \/ WriteFlush
    \/ \E i \in DOMAIN write_futures : WorkerStart(i)
    \/ \E i \in DOMAIN write_futures : WorkerDone(i)
    \/ \E i \in DOMAIN write_futures : WorkerFail(i)
    \/ Close
    \/ CloseFlush
    \/ CloseWait
    \/ GetBlockList
    \/ PutBlockList

\* ========================================================================
\* Raw stream (ObjectIOBase, the raw stream class, AzureBlobRawIO)
\* ========================================================================

\* ObjectIOBase.__init__, lines 35-42: a mode is a string, here the sequence
\* of its characters; "c in mode" is In(c, mode).
In(c, mode) == \E i \in DOMAIN mode : mode[i] = c

\* ObjectIOBase.__init__, lines 31-42: the features the mode selects.
Writable(mode) == In("w", mode) \/ In("a", mode)
ReadableWithR(mode) == In("r", mode)
Readable(mode) == ~Writable(mode) /\ In("r", mode)

\* ObjectIOBase.__init__, lines 41-42: the else branch raises ValueError.
InvalidModeNever(mode) == FALSE
InvalidMode(mode) == ~Writable(mode) /\ ~In("r", mode)

\* AzureBlobRawIO.__init__, lines 89-92: the stream makes a new object.
IsNewFile(mode, exists) ==
    Writable(mode) /\ (~In("a", mode) \/ (In("a", mode) /\ ~exists))

\* Modes the streams of the model are opened with.
RawModes == {<<"r">>, <<"w">>, <<"a">>, <<"r", "b">>, <<"w", "b">>,
             <<"r", "w">>, <<"x">>, <<"b">>, <<>>}

\* Byte of a buffer that readinto has not written: bytearray(n) is zeros.
Zeros(n) == [i \in 1 .. n |-> 0]

\* What a call returned: the operation, its argument, the position it
\* started at, the count or the bytes it returned, what a tell() called
\* after it returned (-1 as long as tell() was not called), the exception
\* it raised, the status the service answered its request with (0 when
\* it made no request) and the mode a construction was called with.
RawResult(op, arg, start, count, data) ==
    [op |-> op, arg |-> arg, start |-> start, count |-> count, data |-> data,
     tell |-> -1, raised |-> None, status |-> 0, mode |-> <<>>]

\* The same for a call that raised.
RawRaised(op, arg, start, error, status) ==
    [RawResult(op, arg, start, 0, <<>>)
        EXCEPT !.raised = error, !.status = status]

\* Nobody holds self._seek_lock and no worker updates the position.
NoUpdate == [pc |-> "idle", before |-> 0, after |-> 0]

\* No stream is constructed yet; the object has up to MaxSize bytes.
RawInit ==
    /\ raw_stream = "none"
    /\ raw_mode = <<>>
    /\ raw_readable = FALSE
    /\ raw_writable = FALSE
    /\ raw_seekable = FALSE
    /\ raw_seek = 0
    /\ raw_object \in {Bytes(0, size) : size \in 0 .. MaxSize}
    /\ raw_written = <<>>
    /\ raw_b = <<>>
    /\ raw_dirty = FALSE
    /\ raw_calls = <<>>
    /\ raw_lock = None
    /\ raw_update = NoUpdate
    /\ raw_result = RawResult("none", 0, 0, 0, <<>>)

\* The stream is constructed with a mode: ObjectIOBase.__init__ sets the
\* features or raises ValueError, and no stream exists then. A stream is
\* opened for appending on an object that does not exist yet, and the
\* object of a stream that makes a new object is still to write.
RawOpen(mode) ==
    /\ raw_stream = "none"
    /\ In("a", mode) => raw_object = <<>>
    /\ IF InvalidMode(mode)
       THEN /\ raw_result' = [RawRaised("open", 0, 0, "ValueError", 0)
                                  EXCEPT !.mode = mode]
            /\ UNCHANGED <<raw_stream, raw_mode, raw_readable, raw_writable,
                           raw_seekable, raw_dirty>>
       ELSE /\ raw_stream' = "open"
            /\ raw_mode' = mode
            /\ raw_writable' = Writable(mode)
            /\ raw_readable' = Readable(mode)
            /\ raw_seekable' = TRUE
            /\ raw_dirty' = IsNewFile(mode, FALSE)
            /\ raw_result' = [RawResult("open", 0, 0, 0, <<>>)
                                  EXCEPT !.mode = mode]
    /\ UNCHANGED <<raw_seek, raw_object, raw_written, raw_b, raw_calls,
                   raw_lock, raw_update>>
    /\ UNCHANGED NotRaw

\* Failures the service answers a request with: none (0), a missing
\* object (404), a server error (500).
Failures == {0, 404, 500}

\* get_blob_to_stream: the status the service answers a read of the range
\* that starts at start with: the failure, 416 when the range starts at or
\* after the end of the object, else 206.
Status(object, start, failure) ==
    IF failure # 0 THEN failure
    ELSE IF start >= Len(object) THEN 416 ELSE 206

\* _handle_azure_exception: the exception that leaves the with block for
\* a status.
HandleAzureException(status) ==
    CASE status = 206 -> None
      [] status = 404 -> "ObjectNotFoundError"
      [] status = 403 -> "ObjectPermissionError"
      [] OTHER -> "AzureHttpError"

\* AzureBlobRawIO._read_range, lines 106-118: the exception it raises for
\* a status; an AzureHttpError with status 416 is the end of the file.
ReadRangeRaisedNever(status) == None
ReadRangeRaised(status) ==
    IF HandleAzureException(status) = "AzureHttpError" /\ status = 416
    THEN None
    ELSE HandleAzureException(status)

\* get_blob_to_stream without a range: the failure, else 206.
StatusAll(failure) == IF failure # 0 THEN failure ELSE 206

\* AzureBlobRawIO._readall, lines 129-133: nothing is caught.
ReadAllRaised(status) == HandleAzureException(status)

\* readinto(b) with len(b) = n: the range [position, position + n) is read
\* with _read_range, the bytes returned are copied to the start of b and
\* the position moves by their number.
RawReadInto(n, failure) ==
    /\ raw_stream = "open"
    /\ raw_readable
    /\ raw_lock = None
    /\ LET status == Status(raw_object, raw_seek, failure)
           error == ReadRangeRaised(status)
           data == IF failure = 0
                   THEN ReadRange(raw_object, raw_seek, raw_seek + n)
                   ELSE <<>>
       IN IF error # None
          THEN /\ raw_result' = RawRaised("readinto", n, raw_seek, error,
                                          status)
               /\ raw_b' = Zeros(n)
               /\ UNCHANGED raw_seek
          ELSE /\ raw_b' = data \o SubSeq(Zeros(n), Len(data) + 1, n)
               /\ raw_seek' = raw_seek + Len(data)
               /\ raw_result' = [RawResult("readinto", n, raw_seek,
                                           Len(data), <<>>)
                                    EXCEPT !.status = status]
    /\ UNCHANGED <<raw_stream, raw_mode, raw_readable, raw_writable,
                   raw_seekable, raw_object, raw_written, raw_dirty,
                   raw_calls, raw_lock, raw_update>>
    /\ UNCHANGED NotRaw

\* readall(): the whole object with _readall at position 0, else what
\* follows the position with _read_range(position); the position moves by
\* the number of bytes returned.
RawReadAll(failure) ==
    /\ raw_stream = "open"
    /\ raw_readable
    /\ raw_lock = None
    /\ LET status == IF raw_seek = 0 THEN StatusAll(failure)
                     ELSE Status(raw_object, raw_seek, failure)
           error == IF raw_seek = 0 THEN ReadAllRaised(status)
                    ELSE ReadRangeRaised(status)
           data == IF failure # 0 THEN <<>>
                   ELSE IF raw_seek = 0 THEN ReadAll(raw_object)
                   ELSE ReadRange(raw_object, raw_seek, 0)
       IN IF error # None
          THEN /\ raw_result' = RawRaised("readall", 0, raw_seek, error,
                                          status)
               /\ UNCHANGED raw_seek
          ELSE /\ raw_seek' = raw_seek + Len(data)
               /\ raw_result' = [RawResult("readall", 0, raw_seek,
                                           Len(data), data)
                                    EXCEPT !.status = status]
    /\ UNCHANGED <<raw_stream, raw_mode, raw_readable, raw_writable,
                   raw_seekable, raw_object, raw_written, raw_b, raw_dirty,
                   raw_calls, raw_lock, raw_update>>
    /\ UNCHANGED NotRaw

\* seek(p) from the start of the stream: the position becomes p, which is
\* returned.
RawSeek(p) ==
    /\ raw_stream = "open"
    /\ raw_readable
    /\ raw_seekable
    /\ raw_lock = None
    /\ raw_seek' = p
    /\ raw_result' = RawResult("seek", p, raw_seek, p, <<>>)
    /\ UNCHANGED <<raw_stream, raw_mode, raw_readable, raw_writable,
                   raw_seekable, raw_object, raw_written, raw_b, raw_dirty,
                   raw_calls, raw_lock, raw_update>>
    /\ UNCHANGED NotRaw

\* write(b) with len(b) = n: the bytes are added to the write buffer and
\* the position moves by n, which is returned. The service is not called.
RawWrite(n) ==
    /\ raw_stream = "open"
    /\ raw_writable
    /\ raw_lock = None
    /\ Len(raw_written) + n <= MaxSize
    /\ raw_written' = raw_written \o Bytes(Len(raw_written), n)
    /\ raw_seek' = raw_seek + n
    /\ raw_dirty' = TRUE
    /\ raw_result' = RawResult("write", n, raw_seek, n, <<>>)
    /\ UNCHANGED <<raw_stream, raw_mode, raw_readable, raw_writable,
                   raw_seekable, raw_object, raw_b, raw_calls, raw_lock,
                   raw_update>>
    /\ UNCHANGED NotRaw

\* AzureBlockBlobRawIO._flush, lines 52-55: the body of the one
\* create_blob_from_bytes call, the entire buffer.
FlushNewBytes(buffer) == SubSeq(buffer, Len(raw_object) + 1, Len(buffer))
FlushBody(buffer) == buffer

\* The stream holds an accumulation that no flush has written yet.
DirtyAlways == TRUE
Dirty == raw_dirty

\* The _flush hook is called with the write buffer: the service replaces
\* the object by the body of the call.
RawFlushHook ==
    /\ raw_calls' = Append(raw_calls, FlushBody(raw_written))
    /\ raw_object' = FlushBody(raw_written)
    /\ raw_dirty' = FALSE

\* flush(): the hook is called once for an accumulation that is not
\* flushed yet, and not at all when there is none or the stream is not
\* writable.
RawFlush ==
    /\ raw_stream = "open"
    /\ raw_lock = None
    /\ IF raw_writable /\ Dirty
       THEN RawFlushHook
       ELSE UNCHANGED <<raw_calls, raw_object, raw_dirty>>
    /\ raw_result' = RawResult("flush", 0, raw_seek, 0, <<>>)
    /\ UNCHANGED <<raw_stream, raw_mode, raw_readable, raw_writable,
                   raw_seekable, raw_seek, raw_written, raw_b, raw_lock,
                   raw_update>>
    /\ UNCHANGED NotRaw

\* close(): a writable stream with an accumulation that is not flushed is
\* flushed, then the stream is closed; closing a closed stream does
\* nothing.
RawClose ==
    /\ raw_stream \in {"open", "closed"}
    /\ raw_lock = None
    /\ IF raw_stream = "open" /\ raw_writable /\ Dirty
       THEN RawFlushHook
       ELSE UNCHANGED <<raw_calls, raw_object, raw_dirty>>
    /\ raw_stream' = "closed"
    /\ raw_result' = RawResult("close", IF raw_stream = "closed" THEN 1 ELSE 0,
                                raw_seek, 0, <<>>)
    /\ UNCHANGED <<raw_mode, raw_readable, raw_writable, raw_seekable,
                   raw_seek, raw_written, raw_b, raw_lock, raw_update>>
    /\ UNCHANGED NotRaw

\* ObjectIOBase.tell, lines 108-109: self._seek, read with self._seek_lock.
TellStart == raw_result.start
Tell == raw_seek

\* ObjectIOBase.tell, line 108: the position is read when the lock is
\* acquired, that is when no other thread holds it.
SeekLockIgnored == TRUE
SeekLockAcquired == raw_lock = None

\* tell() is called; lines 105-106 raise UnsupportedOperation for a stream
\* that is not seekable.
RawTell ==
    /\ raw_stream = "open"
    /\ raw_result.tell = -1
    /\ raw_result.raised # "UnsupportedOperation"
    /\ IF ~raw_seekable
       THEN raw_result' = RawRaised("tell", 0, raw_seek,
                                    "UnsupportedOperation", 0)
       ELSE /\ SeekLockAcquired
            /\ raw_result' = [raw_result EXCEPT !.tell = Tell]
    /\ UNCHANGED <<raw_stream, raw_mode, raw_readable, raw_writable,
                   raw_seekable, raw_seek, raw_object, raw_written, raw_b,
                   raw_dirty, raw_calls, raw_lock, raw_update>>
    /\ UNCHANGED NotRaw

RawNext ==
    \/ \E mode \in RawModes : RawOpen(mode)
    \/ \E n \in 1 .. MaxRead, failure \in Failures : RawReadInto(n, failure)
    \/ \E failure \in Failures : RawReadAll(failure)
    \/ \E p \in 0 .. MaxSize : RawSeek(p)
    \/ \E n \in 1 .. MaxRead : RawWrite(n)
    \/ RawFlush
    \/ RawClose
    \/ RawTell

\* ------------------------------------------------------------------------
\* tell() of the caller and a worker that updates the position
\* ------------------------------------------------------------------------
\* A stream open for reading, of ObjectIOBase or of a subclass that turned
\* _seekable off, at any position of its object.
TellInit ==
    /\ raw_stream = "open"
    /\ raw_mode = <<"r">>
    /\ raw_readable = TRUE
    /\ raw_writable = FALSE
    /\ raw_seekable \in BOOLEAN
    /\ raw_seek \in 0 .. MaxSize
    /\ raw_object \in {Bytes(0, size) : size \in 0 .. MaxSize}
    /\ raw_written = <<>>
    /\ raw_b = <<>>
    /\ raw_dirty = FALSE
    /\ raw_calls = <<>>
    /\ raw_lock = None
    /\ raw_update = NoUpdate
    /\ raw_result = RawResult("open", 0, 0, 0, <<>>)

\* A worker acquires self._seek_lock to move the position by n.
WorkerLock(n) ==
    /\ raw_stream = "open"
    /\ raw_lock = None
    /\ raw_seek + n <= MaxSize
    /\ raw_lock' = "worker"
    /\ raw_update' = [pc |-> "locked", before |-> raw_seek,
                      after |-> raw_seek + n]
    /\ UNCHANGED <<raw_stream, raw_mode, raw_readable, raw_writable,
                   raw_seekable, raw_seek, raw_object, raw_written, raw_b,
                   raw_dirty, raw_calls, raw_result>>
    /\ UNCHANGED NotRaw

\* The worker, holding the lock, moves the position towards its new value.
WorkerAdvance ==
    /\ raw_lock = "worker"
    /\ raw_seek < raw_update.after
    /\ raw_seek' = raw_seek + 1
    /\ UNCHANGED <<raw_stream, raw_mode, raw_readable, raw_writable,
                   raw_seekable, raw_object, raw_written, raw_b, raw_dirty,
                   raw_calls, raw_lock, raw_update, raw_result>>
    /\ UNCHANGED NotRaw

\* The position has its new value and the worker releases the lock.
WorkerUnlock ==
    /\ raw_lock = "worker"
    /\ raw_seek = raw_update.after
    /\ raw_lock' = None
    /\ raw_update' = [raw_update EXCEPT !.pc = "idle"]
    /\ UNCHANGED <<raw_stream, raw_mode, raw_readable, raw_writable,
                   raw_seekable, raw_seek, raw_object, raw_written, raw_b,
                   raw_dirty, raw_calls, raw_result>>
    /\ UNCHANGED NotRaw

TellNext ==
    \/ RawTell
    \/ \E n \in 1 .. MaxRead : WorkerLock(n)
    \/ WorkerAdvance
    \/ WorkerUnlock

\* ========================================================================
\* Memoized accessors (ObjectIOBase._memoize)
\* ========================================================================
\* The stream instances.
Instances == {"s1", "s2"}

\* The methods decorated with _memoize: each has its __name__. Two of
\* them have the same __name__ (two lambdas, or the accessor of a base
\* class and the one of a subclass that overrides it and calls it).
Methods == {"client", "size", "base_client"}
MethodNames == {"_client", "_size"}
MethodName(method) == IF method = "size" THEN "_size" ELSE "_client"

\* The arguments of a call of an accessor: none (a property), or one.
MemoArgs == {"none", "x"}

\* method(self, *args, **kwargs): the value the method computes for an
\* instance and arguments.
Computed(method, self, args) == <<method, self, args>>

\* A key that self._cache does not have.
NoValue == <<>>

\* ObjectIOBase._memoize, line 47: the key of the cache is the __name__ of
\* the method.
CacheKey(method) == MethodName(method)

\* ObjectIOBase.__init__, line 24: every instance has its own empty cache.
MemoInit ==
    /\ memo_cache = [self \in Instances |-> [name \in MethodNames |-> NoValue]]
    /\ memo_runs = [self \in Instances |-> [method \in Methods |-> 0]]
    /\ memo_result = [self |-> None, method |-> None, value |-> NoValue,
                      ran |-> FALSE, args |-> None, raised |-> None]

\* patched(self, *args, **kwargs), lines 49-56: the value of the cache for
\* the key, or at KeyError the value the method computes, which is stored.
\* In "result = self._cache[method_name] = method(...)" the call comes
\* first: when the method raises, nothing is assigned and the exception
\* leaves patched.
Patched(self, method, args, raises) ==
    LET key == CacheKey(method)
        hit == memo_cache[self][key] # NoValue
        value == IF hit THEN memo_cache[self][key]
                 ELSE IF raises THEN NoValue
                 ELSE Computed(method, self, args)
    IN /\ memo_cache' = [memo_cache EXCEPT ![self][key] = value]
       /\ memo_runs' = [memo_runs EXCEPT ![self][method] =
                            IF hit \/ raises THEN @ ELSE @ + 1]
       /\ memo_result' = [self |-> self, method |-> method, value |-> value,
                          ran |-> ~hit, args |-> args,
                          raised |-> IF ~hit /\ raises THEN "Error" ELSE None]
       /\ UNCHANGED NotMemo

MemoNext ==
    \E self \in Instances, method \in Methods, args \in MemoArgs,
       raises \in BOOLEAN : Patched(self, method, args, raises)

\* ========================================================================
\* Buffered stream, read path (the prefetch window)
\* ========================================================================
Min(a, b) == IF a < b THEN a ELSE b
AtLeastZero(a) == IF a < 0 THEN 0 ELSE a

\* How many chunks a stream prefetches ahead.
ReadAheads == {1, 2}

\* The start of the aligned chunk that holds the position.
ChunkStart(pos) == (pos \div rd_buffer_size) * rd_buffer_size

\* A prefetch task that was just submitted for the chunk at start.
Task(start) == [start |-> start, done |-> FALSE, data |-> <<>>,
                src |-> "none"]

\* The tasks submitted for a position in the object: the chunk that holds
\* it and up to max_buffers chunks ahead, as far as the object goes.
RECURSIVE TasksFrom(_, _)
TasksFrom(start, count) ==
    IF count = 0 \/ start >= Len(rd_object) THEN <<>>
    ELSE <<Task(start)>> \o TasksFrom(start + rd_buffer_size, count - 1)

Tasks(pos) ==
    IF pos >= Len(rd_object) THEN <<>>
    ELSE TasksFrom(ChunkStart(pos), rd_max_buffers + 1)

\* The end of the range these tasks read.
TasksEnd(pos) ==
    Min(ChunkStart(pos) + Len(Tasks(pos)) * rd_buffer_size, Len(rd_object))

\* The range read of the task of the chunk at start.
ChunkData(start) == ReadRange(rd_object, start, start + rd_buffer_size)

\* The index in the window of the task of the chunk that holds the
\* position, 0 when the position is outside the window or the object.
WindowIndex(pos) ==
    IF /\ pos < Len(rd_object)
       /\ \E i \in DOMAIN rd_window : rd_window[i].start = ChunkStart(pos)
    THEN CHOOSE i \in DOMAIN rd_window : rd_window[i].start = ChunkStart(pos)
    ELSE 0

\* The offsets of the tasks of a part of the window that still run.
Pending(window) == {window[i].start : i \in {j \in DOMAIN window :
                                                 ~window[j].done}}

\* The first task of the window that still runs, 0 when there is none.
FirstPending(window) ==
    IF \E i \in DOMAIN window : ~window[i].done
    THEN CHOOSE i \in DOMAIN window :
             ~window[i].done /\ \A j \in 1 .. (i - 1) : window[j].done
    ELSE 0

\* The task i of the window completes: its future holds its range.
CompleteFirstPending(window, i) ==
    [window EXCEPT ![FirstPending(window)] =
        [@ EXCEPT !.done = TRUE, !.data = ChunkData(window[i].start),
                  !.src = "own"]]
Complete(window, i) ==
    [window EXCEPT ![i] =
        [@ EXCEPT !.done = TRUE, !.data = ChunkData(window[i].start),
                  !.src = "own"]]

\* An invalidated task completes: its result is discarded.
OrphanResultDelivered(window, start) ==
    IF FirstPending(window) = 0 THEN window
    ELSE [window EXCEPT ![FirstPending(window)] =
             [@ EXCEPT !.done = TRUE, !.data = ChunkData(start),
                       !.src = "orphan"]]
OrphanResult(window, start) == window

\* No read call is in progress; after_seek says that no read was made
\* since a seek outside the window.
NoCall(after_seek) ==
    [active |-> FALSE, n |-> 0, left |-> 0, start |-> 0, data |-> <<>>,
     stale |-> FALSE, after_seek |-> after_seek]

\* What a call returned: the bytes of a read, whether tasks of the window
\* still ran when it returned, whether a byte came from an invalidated
\* task, and whether the call was the first read after a seek outside the
\* window.
ReadResult(op, arg, start, data, pending, stale, after_seek) ==
    [op |-> op, arg |-> arg, start |-> start, data |-> data,
     pending |-> pending, stale |-> stale, after_seek |-> after_seek]

\* The stream is opened on an object of up to MaxSize bytes.
ReadInit ==
    /\ rd_object \in {Bytes(0, size) : size \in 0 .. MaxSize}
    /\ rd_buffer_size \in BufferSizes
    /\ rd_max_buffers \in ReadAheads
    /\ rd_seek = 0
    /\ rd_window = <<>>
    /\ rd_orphans = {}
    /\ rd_call = NoCall(FALSE)
    /\ rd_out = <<>>
    /\ rd_base = 0
    /\ rd_late = FALSE
    /\ rd_end = 0
    /\ rd_result = ReadResult("open", 0, 0, <<>>, FALSE, FALSE, FALSE)

\* read(n) is called.
ReadBegin(n) ==
    /\ ~rd_call.active
    /\ rd_call' = [active |-> TRUE, n |-> n, left |-> n, start |-> rd_seek,
                   data |-> <<>>, stale |-> FALSE,
                   after_seek |-> rd_call.after_seek]
    /\ UNCHANGED <<rd_object, rd_buffer_size, rd_max_buffers, rd_seek,
                   rd_window, rd_orphans, rd_out, rd_base, rd_late, rd_end,
                   rd_result>>
    /\ UNCHANGED NotRead

\* The read misses the window: one task per chunk is submitted.
ReadMiss ==
    /\ rd_call.active
    /\ rd_call.left > 0
    /\ rd_seek < Len(rd_object)
    /\ rd_window = <<>>
    /\ rd_window' = Tasks(rd_seek)
    /\ rd_end' = TasksEnd(rd_seek)
    /\ UNCHANGED <<rd_object, rd_buffer_size, rd_max_buffers, rd_seek,
                   rd_orphans, rd_call, rd_out, rd_base, rd_late, rd_result>>
    /\ UNCHANGED NotRead

\* The task of the chunk at the position has completed: the read takes
\* the bytes it needs from it, and the chunk leaves the window when its
\* last byte is taken. The read waits for no other task.
ReadChunk ==
    /\ rd_call.active
    /\ rd_call.left > 0
    /\ rd_seek < Len(rd_object)
    /\ rd_window # <<>>
    /\ rd_window[1].done
    /\ LET head == rd_window[1]
           offset == AtLeastZero(rd_seek - head.start)
           available == AtLeastZero(Len(head.data) - offset)
           take == Min(rd_call.left, available)
           bytes == SubSeq(head.data, offset + 1, offset + take)
       IN /\ rd_call' = [rd_call EXCEPT !.left = @ - take,
                                        !.data = @ \o bytes,
                                        !.stale = @ \/ head.src = "orphan"]
          /\ rd_seek' = rd_seek + take
          /\ rd_out' = rd_out \o bytes
          /\ rd_window' = IF take = available THEN Tail(rd_window)
                          ELSE rd_window
    /\ UNCHANGED <<rd_object, rd_buffer_size, rd_max_buffers, rd_orphans,
                   rd_base, rd_late, rd_end, rd_result>>
    /\ UNCHANGED NotRead

\* The read has its n bytes, or the position is the end of the object: it
\* returns.
ReadReturn ==
    /\ rd_call.active
    /\ rd_call.left = 0 \/ rd_seek >= Len(rd_object)
    /\ rd_result' = ReadResult("read", rd_call.n, rd_call.start,
                               rd_call.data,
                               Pending(rd_window) # {},
                               rd_call.stale, rd_call.after_seek)
    /\ rd_call' = NoCall(FALSE)
    /\ UNCHANGED <<rd_object, rd_buffer_size, rd_max_buffers, rd_seek,
                   rd_window, rd_orphans, rd_out, rd_base, rd_late, rd_end>>
    /\ UNCHANGED NotRead

\* A worker completes the task i of the window, whatever tasks run still.
PrefetchDone(i) ==
    /\ ~rd_window[i].done
    /\ rd_window' = Complete(rd_window, i)
    /\ UNCHANGED <<rd_object, rd_buffer_size, rd_max_buffers, rd_seek,
                   rd_orphans, rd_call, rd_out, rd_base, rd_late, rd_end,
                   rd_result>>
    /\ UNCHANGED NotRead

\* seek(p): inside the window the chunks before the one that holds p
\* leave it; outside it the tasks of the window are invalidated and the
\* prefetch starts again at p. The tasks that left and still run are
\* orphans.
ReadSeek(p) ==
    /\ ~rd_call.active
    /\ LET k == WindowIndex(p)
       IN IF k # 0
          THEN /\ rd_window' = SubSeq(rd_window, k, Len(rd_window))
               /\ rd_orphans' = rd_orphans \cup
                                    Pending(SubSeq(rd_window, 1, k - 1))
               /\ UNCHANGED <<rd_call, rd_late, rd_end>>
          ELSE /\ rd_window' = Tasks(p)
               /\ rd_end' = TasksEnd(p)
               /\ rd_orphans' = rd_orphans \cup Pending(rd_window)
               /\ rd_call' = NoCall(TRUE)
               /\ rd_late' = FALSE
    /\ rd_seek' = p
    /\ rd_out' = <<>>
    /\ rd_base' = p
    /\ rd_result' = ReadResult("seek", p, p, <<>>, FALSE, FALSE,
                               WindowIndex(p) = 0)
    /\ UNCHANGED <<rd_object, rd_buffer_size, rd_max_buffers>>
    /\ UNCHANGED NotRead

\* A worker completes an invalidated task.
OrphanDone(start) ==
    /\ start \in rd_orphans
    /\ rd_orphans' = rd_orphans \ {start}
    /\ rd_window' = OrphanResult(rd_window, start)
    /\ rd_late' = TRUE
    /\ UNCHANGED <<rd_object, rd_buffer_size, rd_max_buffers, rd_seek,
                   rd_call, rd_out, rd_base, rd_end, rd_result>>
    /\ UNCHANGED NotRead

ReadNext ==
    \/ \E n \in 1 .. MaxRead : ReadBegin(n)
    \/ ReadMiss
    \/ ReadChunk
    \/ ReadReturn
    \/ \E i \in DOMAIN rd_window : PrefetchDone(i)
    \/ \E p \in 0 .. MaxSize : ReadSeek(p)
    \/ \E start \in rd_orphans : OrphanDone(start)

\* ========================================================================
\* copy(src, dst)
\* ========================================================================
\* The systems mounted (test_functions.py, lines 304-310: two roots, each
\* with its own system) and the paths copied: two of the first system, one
\* of the second and a local one.
CopySystems == {"dummy_read", "dummy_read2"}
NoSystem == "local"
CopyPaths == {"dummy_read://file.txt", "dummy_read://file.txt2",
              "dummy_read2://file.txt", "/file.txt"}

\* The system that serves a path.
SystemOf(path) ==
    CASE path \in {"dummy_read://file.txt", "dummy_read://file.txt2"}
            -> "dummy_read"
      [] path = "dummy_read2://file.txt" -> "dummy_read2"
      [] OTHER -> NoSystem

\* The two paths are objects of one mounted system.
SameSystem(src, dst) ==
    SystemOf(src) # NoSystem /\ SystemOf(src) = SystemOf(dst)

\* A path that has no object.
NoContent == <<>>

\* DummySystem.copy, lines 256-260: UnsupportedOperation is raised when
\* raise_on_copy is set, else the copy is made.
SystemCopyNeverRaises(raise_on_copy) == None
SystemCopyRaises(raise_on_copy) ==
    IF raise_on_copy THEN "UnsupportedOperation" ELSE None

\* What a copy did: whether system.copy was called, whether the streams
\* were copied, what it raised, and whether raise_on_copy of the system
\* of the source was set when it was called.
CopyResult(op, src, dst, called, streamed, error) ==
    [op |-> op, src |-> src, dst |-> dst, called |-> called,
     streamed |-> streamed, raised |-> error, raise_on_copy |-> FALSE]

\* DummySystem.__init__, lines 252-254: nothing is copied and copy does
\* not raise; the first path has an object, the others may have one.
CopyInit ==
    /\ cp_objects \in
          {[path \in CopyPaths |->
               CASE path = "dummy_read://file.txt" -> <<1>>
                 [] path = "dummy_read://file.txt2" -> second
                 [] path = "dummy_read2://file.txt" -> third
                 [] OTHER -> NoContent] :
           second \in {NoContent, <<2>>}, third \in {NoContent, <<3>>}}
    /\ cp_raise_on_copy = [system \in CopySystems |-> FALSE]
    /\ cp_copied = [system \in CopySystems |-> FALSE]
    /\ cp_result = CopyResult("none", "", "", FALSE, FALSE, None)

\* The test sets or clears system.raise_on_copy (line 420).
SetRaiseOnCopy(system) ==
    /\ cp_raise_on_copy' = [cp_raise_on_copy EXCEPT ![system] = ~@]
    /\ UNCHANGED <<cp_objects, cp_copied, cp_result>>
    /\ UNCHANGED NotCopy

\* The test clears system.copied (line 413).
ClearCopied(system) ==
    /\ cp_copied[system]
    /\ cp_copied' = [cp_copied EXCEPT ![system] = FALSE]
    /\ UNCHANGED <<cp_objects, cp_raise_on_copy, cp_result>>
    /\ UNCHANGED NotCopy

\* copy(src, dst) of an existing src: the same file is refused; between
\* two paths of one system the copy of the system is called and, when it
\* raises UnsupportedOperation, the streams are copied; in every other
\* case the streams are copied.
Copy(src, dst) ==
    /\ cp_objects[src] # NoContent
    /\ IF src = dst
       THEN /\ cp_result' = CopyResult("copy", src, dst, FALSE, FALSE,
                                       "SameFileError")
            /\ UNCHANGED <<cp_objects, cp_copied>>
       ELSE IF SameSystem(src, dst)
       THEN LET system == SystemOf(src)
                error == SystemCopyRaises(cp_raise_on_copy[system])
            IN /\ cp_copied' = [cp_copied EXCEPT ![system] =
                                    @ \/ error = None]
               /\ cp_objects' = [cp_objects EXCEPT ![dst] = cp_objects[src]]
               /\ cp_result' = [CopyResult("copy", src, dst, TRUE,
                                           error # None, None)
                                    EXCEPT !.raise_on_copy =
                                               cp_raise_on_copy[system]]
       ELSE /\ cp_objects' = [cp_objects EXCEPT ![dst] = cp_objects[src]]
            /\ cp_result' = CopyResult("copy", src, dst, FALSE, TRUE, None)
            /\ UNCHANGED cp_copied
    /\ UNCHANGED cp_raise_on_copy
    /\ UNCHANGED NotCopy

CopyNext ==
    \/ \E system \in CopySystems : SetRaiseOnCopy(system)
    \/ \E system \in CopySystems : ClearCopied(system)
    \/ \E src \in CopyPaths, dst \in CopyPaths : Copy(src, dst)

\* ========================================================================
\* Construction of an Azure blob stream (_new_blob, AzureBlobRawIO.__new__,
\* AzureBlobBufferedIO.__new__)
\* ========================================================================
\* The blob types, and the one that system._default_blob_type names.
BlobTypes == {"BlockBlob", "PageBlob", "AppendBlob"}
DefaultBlobType == "BlockBlob"

\* The names a stream is constructed for.
BlobNames == {"container/blob", "name"}

\* The generic classes AzureBlobRawIO and AzureBlobBufferedIO, and the
\* classes that AZURE_RAW and AZURE_BUFFERED register for each blob type.
BlobKinds == {"raw", "buffered"}
Generic(kind) == [kind |-> kind, blob_type |-> None]
Registered(kind, blob_type) == [kind |-> kind, blob_type |-> blob_type]
BlobClasses ==
    {Generic(kind) : kind \in BlobKinds}
       \cup {Registered(kind, t) : kind \in BlobKinds, t \in BlobTypes}

\* The storage_parameters of the caller: the key is not in kwargs, or a
\* dict that has 'pycosio.system_cached' or not.  head is the value of
\* 'pycosio.raw_io._head', None when the dict has no such key.
NoParameters == [dict |-> FALSE, system_cached |-> FALSE, head |-> None]
BlobParametersArgs ==
    {NoParameters,
     [dict |-> TRUE, system_cached |-> FALSE, head |-> None],
     [dict |-> TRUE, system_cached |-> TRUE, head |-> None]}

\* system.head(path): the header of the object, which holds its blob type;
\* None stands for ObjectNotFoundError.
SystemHead(objects, path) == objects[path]

\* _new_blob, line 49: the path of the header that is read.
HeadPath(name) == "name"

\* _new_blob, line 32: the storage parameters are copied, so that the
\* caller's dict is as it was whatever is written to the copy.
AfterCopy(original, written) == original

\* _new_blob, lines 30-57: the blob type, the storage_parameters put in
\* kwargs, the caller's dict afterwards, and whether a system was
\* constructed.
NewBlob(objects, name, kwargs) ==
    LET copy == IF kwargs.storage_parameters.dict
                THEN kwargs.storage_parameters
                ELSE [NoParameters EXCEPT !.dict = TRUE]
        head == SystemHead(objects, HeadPath(name))
        storage_parameters ==
            [copy EXCEPT !.system_cached = TRUE, !.head = head]
    IN [blob_type |->
            IF head # None THEN head
            ELSE IF kwargs.blob_type # None THEN kwargs.blob_type
            ELSE DefaultBlobType,
        storage_parameters |-> storage_parameters,
        caller |-> AfterCopy(kwargs.storage_parameters, storage_parameters),
        constructed |-> ~copy.system_cached]

\* A construction that has made nothing yet.
NoNew ==
    [op |-> "none", cls |-> Generic("raw"), name |-> "", blob_type |-> None,
     given |-> NoParameters, caller |-> NoParameters,
     made |-> Generic("raw"), constructed |-> FALSE]

\* The account holds any object, or none, under each path.
BlobInit ==
    /\ bl_objects \in [BlobNames -> BlobTypes \cup {None}]
    /\ bl_result = NoNew

\* AzureBlobRawIO.__new__ (lines 78-84) and AzureBlobBufferedIO.__new__
\* (lines 158-165): a subclass is instantiated as it is, the generic class
\* as the class registered for the blob type that _new_blob returns.
New(cls, name, blob_type, storage_parameters) ==
    LET kwargs == [blob_type |-> blob_type,
                   storage_parameters |-> storage_parameters]
        new == NewBlob(bl_objects, name, kwargs)
        generic == cls = Generic(cls.kind)
    IN /\ bl_result' =
             [op |-> "new", cls |-> cls, name |-> name,
              blob_type |-> blob_type, given |-> storage_parameters,
              caller |-> IF generic THEN new.caller ELSE storage_parameters,
              made |-> IF generic THEN Registered(cls.kind, new.blob_type)
                       ELSE cls,
              constructed |-> generic /\ new.constructed]
       /\ UNCHANGED bl_objects
       /\ UNCHANGED NotBlob

BlobNext ==
    \E cls \in BlobClasses, name \in BlobNames,
       blob_type \in BlobTypes \cup {None},
       storage_parameters \in BlobParametersArgs :
       New(cls, name, blob_type, storage_parameters)

\* ========================================================================
\* Specifications
\* ========================================================================
vars == <<rvars, wvars, iovars, mvars, dvars, cvars, bvars>>

\* No object in the account and no stream constructed.
BlobNone ==
    /\ bl_objects = [name \in BlobNames |-> None]
    /\ bl_result = NoNew

\* A stream that is never opened.
WNone ==
    /\ buffer_size = 1 /\ max_buffers = 0 /\ max_workers = 1
    /\ wpc = "idle" /\ size_left = 0 /\ copied = 0
    /\ write_buffer = <<>> /\ write_futures = <<>> /\ blocks = <<>>
    /\ wait_idx = 0 /\ block_list = <<>> /\ uncommitted = <<>>
    /\ committed_blocks = <<>> /\ put_block_list_calls = <<>>
    /\ create_blob_calls = <<>> /\ out_of_order = FALSE
    /\ max_outstanding = 0 /\ raised = FALSE

\* A buffered stream that is never opened for reading.
ReadNone ==
    /\ rd_object = <<>> /\ rd_buffer_size = 1 /\ rd_max_buffers = 1
    /\ rd_seek = 0 /\ rd_window = <<>> /\ rd_orphans = {}
    /\ rd_call = NoCall(FALSE) /\ rd_out = <<>> /\ rd_base = 0
    /\ rd_late = FALSE /\ rd_end = 0
    /\ rd_result = ReadResult("none", 0, 0, <<>>, FALSE, FALSE, FALSE)

\* No path has an object and nothing is copied.
CopyNone ==
    /\ cp_objects = [path \in CopyPaths |-> NoContent]
    /\ cp_raise_on_copy = [system \in CopySystems |-> FALSE]
    /\ cp_copied = [system \in CopySystems |-> FALSE]
    /\ cp_result = CopyResult("none", "", "", FALSE, FALSE, None)

\* A raw stream that is never opened.
RawNone ==
    /\ raw_mode = <<>> /\ raw_readable = FALSE /\ raw_writable = FALSE
    /\ raw_seekable = FALSE /\ raw_seek = 0 /\ raw_object = <<>>
    /\ raw_written = <<>> /\ raw_b = <<>>
    /\ raw_result = RawResult("none", 0, 0, 0, <<>>)
    /\ raw_stream = "none" /\ raw_dirty = FALSE /\ raw_calls = <<>>
    /\ raw_lock = None /\ raw_update = NoUpdate

\* Nothing is mounted and no stream is open.
InitRegistry == RInit /\ WNone /\ RawNone /\ MemoInit /\ ReadNone
    /\ CopyNone /\ BlobNone

\* The registry, used by one thread.
SpecRegistry == InitRegistry /\ [][RNext]_vars

\* The registry, used by two threads at once.
SpecThreads == InitRegistry /\ [][RNextThreads]_vars

\* The same under fair scheduling: a thread that is in the with block of
\* mount, or that waits for it while the lock is free again and again,
\* runs it, and a call that has ended hands its result to its caller.
SpecThreadsFair ==
    /\ InitRegistry
    /\ [][RNextThreads]_vars
    /\ \A t \in Threads : SF_vars(MountInsert(t))
    /\ WF_vars(Returned)

\* One buffered write stream, its workers and the blob service.
InitWrite == WInit /\ RInit /\ RawNone /\ MemoInit /\ ReadNone
    /\ CopyNone /\ BlobNone
SpecWrite == InitWrite /\ [][WNext]_vars

\* One raw stream and the object it is opened on.
InitRaw == RawInit /\ RInit /\ WNone /\ MemoInit /\ ReadNone
    /\ CopyNone /\ BlobNone
SpecRaw == InitRaw /\ [][RawNext]_vars

\* The caller's tell() and a worker that moves the position.
InitTell == TellInit /\ RInit /\ WNone /\ MemoInit /\ ReadNone
    /\ CopyNone /\ BlobNone
SpecTell == InitTell /\ [][TellNext]_vars

\* The memoized accessors of two stream instances.
InitMemo == MemoInit /\ RInit /\ WNone /\ RawNone /\ ReadNone
    /\ CopyNone /\ BlobNone
SpecMemo == InitMemo /\ [][MemoNext]_vars

\* One buffered stream opened for reading, its workers and its object.
InitRead == ReadInit /\ RInit /\ WNone /\ RawNone /\ MemoInit
    /\ CopyNone /\ BlobNone
SpecRead == InitRead /\ [][ReadNext]_vars

\* copy between the paths of two mounted systems and a local path.
InitCopy == CopyInit /\ RInit /\ WNone /\ RawNone /\ MemoInit /\ ReadNone
    /\ BlobNone
SpecCopy == InitCopy /\ [][CopyNext]_vars

\* The construction of streams on the blobs of an account.
InitBlob == BlobInit /\ RInit /\ WNone /\ RawNone /\ MemoInit /\ ReadNone
    /\ CopyNone
SpecBlob == InitBlob /\ [][BlobNext]_vars

\* The whole program.
Init == InitWrite
Next == RNext \/ RNextThreads \/ WNext \/ RawNext \/ TellNext \/ MemoNext \/ ReadNext
        \/ CopyNext \/ BlobNext
Spec == Init /\ [][Next]_vars

\* ------------------------------------------------------------------------
\* Claims on the registry (checked under SpecRegistry and SpecThreads).
\* ------------------------------------------------------------------------
\* The thread is in get_instance and its lookup found a root.
FoundRoot(th) == th.in_get_instance /\ th.root # NoRoot

\* The thread is in get_instance and its lookup found no root, so that it
\* ran the implicit mount.
FoundNone(th) == th.in_get_instance /\ th.root = NoRoot

\* get_instance has just returned, for a name that a mounted root matched.
ReturnedFound == returned.kind \in {"system", "stream"} /\ returned.root # NoRoot

\* The indices of the literal roots of MOUNTED that are prefixes of the name.
LiteralPrefixes(name) ==
    {i \in DOMAIN MOUNTED :
        ~MOUNTED[i].root.pattern /\ StartsWith(name, MOUNTED[i].root.s)}

\* The index of the root in MOUNTED, 0 when it is not mounted.
IndexOf(items, root) ==
    IF \E i \in DOMAIN items : items[i].root = root
    THEN CHOOSE i \in DOMAIN items : items[i].root = root
    ELSE 0

\* C2: when two or more mounted literal roots are prefixes of the name,
\* the lookup of get_instance ends on the longest of them and get_instance
\* uses the storage_info of that root.
C2_LongestLiteralRootWins ==
    \A t \in Threads :
        LET th == thread[t]
        IN (th.pc = "gi_return" /\ FoundRoot(th)
                /\ Cardinality(LiteralPrefixes(th.name)) >= 2)
           => /\ ~th.root.pattern
              /\ \A i \in LiteralPrefixes(th.name) :
                    /\ Len(MOUNTED[i].root.s) <= Len(th.root.s)
                    /\ MOUNTED[i].root = th.root => MOUNTED[i].info = th.info

\* C2 witness: "d://" and "d://s/" are mounted with a storage_info each
\* and the lookup of "d://s/x" ended on "d://s/".
C2_Witness ==
    LET th == thread["t1"]
    IN /\ th.pc = "gi_return"
       /\ th.root = RootDS
       /\ IndexOf(MOUNTED, RootD) # 0
       /\ MOUNTED[IndexOf(MOUNTED, RootD)].info # th.info
       /\ Lookup(MOUNTED, th.name) < IndexOf(MOUNTED, RootD)

\* C3: a get_instance on a mounted root that is given no parameters, or
\* parameters equal to the stored ones, returns the system cached by mount
\* (the stream it returns uses that system) and constructs no system.
C3_CachedDriverReused ==
    (ReturnedFound
        /\ (returned.given = EmptyParameters
             \/ returned.given = infos[returned.info].system_parameters))
    => /\ returned.system = infos[returned.info].system_cached
       /\ systems[returned.system] = "mount"
       /\ ~returned.constructed

\* C3 witness: get_instance returned the cached system for parameters that
\* are given and equal to the stored ones.
C3_Witness ==
    /\ ReturnedFound
    /\ returned.kind = "system"
    /\ returned.given # EmptyParameters
    /\ returned.given = infos[returned.info].system_parameters
    /\ returned.system = infos[returned.info].system_cached

\* The parameters differ from the stored ones.
ReturnedDifferent ==
    /\ ReturnedFound
    /\ returned.given # EmptyParameters
    /\ returned.given # infos[returned.info].system_parameters

\* C4: a get_instance for the system class on a mounted root, with
\* parameters that differ from the stored ones, returns a system that it
\* constructs, not the cached one, with the roots of the storage_info and
\* with parameters where each key given by the caller has the caller's
\* value and each other key has the stored value.
C4_FreshFromMergedConfig ==
    (ReturnedDifferent /\ returned.cls = "system")
    => LET stored == infos[returned.info].system_parameters
           merged == returned.system_parameters
       IN /\ returned.constructed
          /\ returned.system = Len(systems)
          /\ systems[returned.system] = "get_instance"
          /\ \A i \in DOMAIN infos : infos[i].system_cached # returned.system
          /\ returned.roots = infos[returned.info].roots
          /\ merged.unsecure =
                IF returned.given.unsecure # None THEN returned.given.unsecure
                ELSE stored.unsecure
          /\ merged.storage_parameters =
                IF returned.given.storage_parameters.dict
                THEN returned.given.storage_parameters
                ELSE stored.storage_parameters

\* C4 witness: the caller gave unsecure alone, the stored parameters have
\* another unsecure and storage_parameters, and the system returned was
\* constructed with the caller's unsecure and the stored storage_parameters.
C4_Witness ==
    /\ ReturnedDifferent
    /\ returned.cls = "system"
    /\ returned.given.unsecure = "True"
    /\ infos[returned.info].system_parameters.unsecure = "False"
    /\ infos[returned.info].system_parameters.storage_parameters.dict
    /\ returned.system_parameters.storage_parameters.dict
    /\ Len(infos[returned.info].roots) = 2

\* C5: a step of a get_instance whose lookup found a mounted root changes
\* neither the stored dicts (the system_parameters with their
\* storage_parameters, the cached system, the roots) nor MOUNTED.
C5_GetInstanceLeavesRegistry ==
    [][(\E t \in Threads : FoundRoot(thread[t]) \/ FoundRoot(thread'[t]))
          => UNCHANGED <<MOUNTED, infos>>]_vars

\* C6: when two threads are in get_instance for the same name with the same
\* parameters and one of them has run the implicit mount, the other one
\* uses the storage_info of that mount, and the mount is the only one that
\* constructed a system for the name.
C6_OneDriverForConcurrentCalls ==
    \A t, u \in Threads :
        (/\ t # u
         /\ thread[t].pc = "gi_return" /\ FoundNone(thread[t])
         /\ thread[u].in_get_instance
         /\ thread[u].name = thread[t].name
         /\ thread[u].given = thread[t].given)
        => /\ thread[u].info = thread[t].info
           /\ FoundRoot(thread[u])

\* A mount by the user returns to thread t in this step.
MountReturns(t) ==
    /\ thread[t].pc = "m_insert"
    /\ ~thread[t].in_get_instance
    /\ thread'[t].pc = "idle"

\* The storage_info that thread t is about to mount has the storage, the
\* parameters and the roots of the storage_info mounted on each of its
\* roots.
RemountIdentical(t) ==
    LET new == infos[thread[t].info]
    IN \A r \in Range(new.roots) :
          /\ IndexOf(MOUNTED, r) # 0
          /\ LET old == infos[MOUNTED[IndexOf(MOUNTED, r)].info]
             IN /\ old.storage = new.storage
                /\ old.system_parameters = new.system_parameters
                /\ old.roots = new.roots

\* The system cached for the root.
CachedOf(items, root) == infos[items[IndexOf(items, root)].info].system_cached

\* C7 as claimed: a mount on roots that are mounted with the same storage
\* and the same parameters leaves the cached system of the roots the same
\* object.
C7_RemountIdenticalReusesDriver ==
    [][\A t \in Threads :
          (MountReturns(t) /\ RemountIdentical(t))
          => \A r \in Range(infos[thread[t].info].roots) :
                CachedOf(MOUNTED', r) = CachedOf(MOUNTED, r)]_vars

\* C7 as amended: a mount always constructs a system of its own, which no
\* other storage_info caches, and each of its roots is then mounted on the
\* new storage_info, which replaces the one mounted before, whether the
\* parameters are the same or not; the new storage_info stores the
\* parameters as given.
C7_RemountConstructsNewDriver ==
    returned.kind = "info"
    => /\ returned.constructed
       /\ systems[returned.system] = "mount"
       /\ infos[returned.info].system_cached = returned.system
       /\ \A i \in DOMAIN infos :
             i # returned.info => infos[i].system_cached # returned.system
       /\ \A r \in Range(returned.roots) :
             /\ IndexOf(MOUNTED, r) # 0
             /\ MOUNTED[IndexOf(MOUNTED, r)].info = returned.info

\* C7 witness: mount returned for a root that was mounted before with the
\* same storage, parameters and roots, and the cached system is a new one.
C7_Witness ==
    /\ returned.kind = "info"
    /\ \E i \in DOMAIN infos :
          /\ i # returned.info
          /\ infos[i].storage = infos[returned.info].storage
          /\ infos[i].roots = infos[returned.info].roots
          /\ infos[i].system_parameters = infos[returned.info].system_parameters
          /\ infos[i].system_cached # infos[returned.info].system_cached

\* The roots of MOUNTED, and whether each is there once.
Roots(items) == {items[i].root : i \in DOMAIN items}
NoRootTwice(items) ==
    \A i, j \in DOMAIN items : items[i].root = items[j].root => i = j

\* Thread t leaves the with block of mount (lines 157-166) in this step.
MountInserts(t) == thread[t].pc = "m_insert" /\ thread'[t].pc # "m_insert"

\* C14: every mount that succeeds has constructed one system, cached by
\* its storage_info alone; the roots of the storage_info, which are the
\* roots of the cached system, are the roots of the system class and the
\* extra root when one is given; when the mount ends, each of these roots
\* is in MOUNTED on this storage_info, every other root that was in
\* MOUNTED is still there on the storage_info it had, nothing else is in
\* MOUNTED, and no root is in MOUNTED twice.
C14_MountRegistersRoots ==
    /\ [](/\ NoRootTwice(MOUNTED)
          /\ Cardinality({i \in DOMAIN systems : systems[i] = "mount"})
                = Len(infos)
          /\ \A i, j \in DOMAIN infos :
                /\ systems[infos[i].system_cached] = "mount"
                /\ infos[i].system_cached = infos[j].system_cached => i = j)
    /\ [][\A t \in Threads :
            MountInserts(t) =>
               LET th == thread[t]
                   new == infos[th.info]
               IN /\ systems' = systems
                  /\ infos' = infos
                  /\ Range(new.roots) =
                        Range(SystemRoots(th.storage)) \cup
                          (IF th.extra_root # NoRoot THEN {th.extra_root}
                           ELSE {})
                  /\ Roots(MOUNTED') = Roots(MOUNTED) \cup Range(new.roots)
                  /\ NoRootTwice(MOUNTED')
                  /\ \A i \in DOMAIN MOUNTED' :
                        MOUNTED'[i].info =
                           IF MOUNTED'[i].root \in Range(new.roots)
                           THEN th.info
                           ELSE MOUNTED[IndexOf(MOUNTED, MOUNTED'[i].root)].info
         ]_vars

\* C14 witness: mount(storage="d", extra_root="d://s/") returned while "e"
\* was mounted: "d://" and "d://s/" are on the new storage_info and the
\* pattern is still on the storage_info of "e".
C14_Witness ==
    /\ returned.kind = "info"
    /\ returned.roots = <<RootD, RootDS>>
    /\ IndexOf(MOUNTED, PatternDS) # 0
    /\ MOUNTED[IndexOf(MOUNTED, PatternDS)].info # returned.info
    /\ MOUNTED[IndexOf(MOUNTED, RootDS)].info = returned.info
    /\ Len(MOUNTED) = 3

\* C15: MOUNTED is in descending order of the length of the roots, literal
\* strings and patterns alike, and the root a lookup ends on is at least as
\* long as every root of MOUNTED that matches the name.
C15_OrderedByDescendingLength ==
    /\ \A i, j \in DOMAIN MOUNTED :
          i < j => Len(MOUNTED[i].root.s) >= Len(MOUNTED[j].root.s)
    /\ \A t \in Threads :
          (thread[t].pc = "gi_return" /\ FoundRoot(thread[t])) =>
             \A i \in DOMAIN MOUNTED :
                Matches(MOUNTED[i].root, thread[t].name) =>
                   Len(MOUNTED[i].root.s) <= Len(thread[t].root.s)

\* The same letters, whatever their case.
SameLetters(a, b) ==
    /\ Len(a) = Len(b)
    /\ \A i \in DOMAIN a : a[i] = b[i] \/ a[i] = b[i] + 32 \/ a[i] + 32 = b[i]

\* mount was called by the user with a name and no storage (the calls of
\* the model give one or the other) and has ended.
MountByName ==
    /\ returned.kind \in {"info"} \cup MountErrors
    /\ ~returned.in_get_instance
    /\ returned.name # <<>>

\* C16: a mount without storage uses the storage named by what precedes the
\* first "://" of the name, in lower case, and "http" for "https"; without
\* "://" in the name it raises ValueError, with no module looked for, no
\* storage_info built and no system constructed, and it raises ValueError
\* in that case only.
C16_StorageInferredFromScheme ==
    MountByName =>
        LET name == returned.name
            scheme == SubSeq(name, 1, FirstSep(name) - 1)
        IN IF ~HasSep(name)
           THEN /\ returned.kind = "ValueError"
                /\ returned.storage = NoStorage
                /\ returned.info = 0
                /\ returned.system = 0
                /\ ~returned.constructed
           ELSE /\ returned.kind # "ValueError"
                /\ \A i \in DOMAIN returned.storage :
                      returned.storage[i] < 65 \/ returned.storage[i] > 90
                /\ IF SameLetters(scheme, Https)
                   THEN returned.storage = Http
                   ELSE SameLetters(scheme, returned.storage)
                /\ returned.kind = "info" =>
                      /\ infos[returned.info].storage = returned.storage
                      /\ returned.storage \in Modules

\* C16 witness: mount(name="D://x") returned the storage_info of the
\* storage "d".
C16_Witness ==
    /\ MountByName
    /\ returned.kind = "info"
    /\ returned.name = <<68>> \o SchemeSep \o <<120>>
    /\ infos[returned.info].storage = StorageD

\* C16, other cases: mount(name="https://x") looked for the module "http",
\* and mount(name="x") raised ValueError.
C16_HttpsWitness ==
    /\ MountByName
    /\ returned.name = Https \o SchemeSep \o <<120>>
    /\ returned.kind = "ImportError"
    /\ returned.storage = Http
C16_ValueErrorWitness ==
    /\ MountByName
    /\ returned.kind = "ValueError"
    /\ MOUNTED # <<>>

\* C17: a step in which mount, or the mount run by get_instance, raises
\* leaves MOUNTED, the storage_info dicts and the systems as they were and
\* the lock free, and the caller gets the exception.
C17_FailedMountLeavesRegistry ==
    [][(returned.kind \notin MountErrors /\ returned'.kind \in MountErrors)
          => /\ UNCHANGED <<MOUNTED, infos, systems>>
             /\ lock_owner' = None
             /\ thread'[returned'.thread].pc = "idle"]_vars

\* C17 witness: a get_instance whose implicit mount could not import the
\* module raised while two storages were mounted.
C17_Witness ==
    /\ returned.kind = "ImportError"
    /\ returned.in_get_instance
    /\ Len(infos) = 2
    /\ Len(MOUNTED) = 3

\* C18: every step that changes MOUNTED or a storage_info dict that is
\* mounted is the with block of mount, run with _MOUNT_LOCK.
C18_RegistryAccessUnderLock ==
    [][(MOUNTED' # MOUNTED
          \/ \E i \in DOMAIN infos : infos'[i] # infos[i])
        => \E t \in Threads : MountInserts(t) /\ lock_owner \in {None, t}]_vars

\* ------------------------------------------------------------------------
\* Claims on the buffered write stream (checked under SpecWrite).
\* ------------------------------------------------------------------------
Committed == put_block_list_calls # <<>>

SomeUploadFailed ==
    \E i \in DOMAIN write_futures : write_futures[i].state = "failed"

\* C1: whatever order the uploads finish in, the block list passed to
\* put_block_list at close holds the ids of the blocks of this stream in
\* ascending sequence index, that is in the order of submission: after the
\* ids read by get_block_list, position i holds the id of the i-th submitted
\* upload.
C1_CommitInSubmissionOrder ==
    \A k \in DOMAIN put_block_list_calls :
        LET list == put_block_list_calls[k]
        IN /\ Len(list) = Len(block_list) + Len(write_futures)
           /\ \A i \in DOMAIN write_futures :
                 /\ write_futures[i].seq = i
                 /\ list[Len(block_list) + i] = write_futures[i].block_id

\* C1 witness: a commit was issued for three blocks or more, the uploads
\* did not finish in the order of submission and the ids are not ascending.
C1_Witness ==
    /\ Committed
    /\ out_of_order
    /\ Len(write_futures) >= 3
    /\ write_futures[1].block_id > write_futures[2].block_id

\* C8: with max_buffers = m > 0 the number of uploads submitted and not
\* finished never exceeds m, so a further submission waits for one to
\* finish.
C8_OutstandingBounded ==
    max_buffers > 0 =>
        /\ Outstanding <= max_buffers
        /\ max_outstanding <= max_buffers

\* C8 witness: max_buffers = 2, two uploads are unfinished and write() is
\* waiting to submit a further block.
C8_Witness ==
    /\ max_buffers = 2
    /\ Outstanding = 2
    /\ wpc = "write_flush"
    /\ ~SlotFree

\* C8, max_buffers = 0: more uploads are outstanding than any limit of the
\* model would allow.
C8_UnboundedWitness ==
    /\ max_buffers = 0
    /\ Outstanding >= 3

\* C9: put_block_list is called only when every upload submitted by the
\* stream has finished, and a close() of a stream that submitted uploads
\* returns only after put_block_list.
C9_CommitAfterUploads ==
    /\ (wpc = "put_block_list" \/ Committed) => Outstanding = 0
    /\ (wpc = "closed" /\ write_futures # <<>>) =>
          /\ Len(put_block_list_calls) = 1
          /\ write_buffer = <<>>

\* C9 witness: close() returned after a commit of three blocks or more whose
\* uploads finished out of order.
C9_Witness ==
    /\ wpc = "closed"
    /\ Committed
    /\ Len(write_futures) >= 3
    /\ out_of_order

\* C10: once an upload has failed, put_block_list is never called and
\* close() does not return normally; close() ends with the exception exactly
\* when it waited on a failed upload.
C10_FailureAbortsCommit ==
    /\ SomeUploadFailed =>
          /\ ~Committed
          /\ wpc \notin {"get_block_list", "put_block_list", "closed"}
    /\ raised <=> wpc = "error"
    /\ raised => /\ wait_idx \in DOMAIN write_futures
                 /\ write_futures[wait_idx].state = "failed"
                 /\ ~Committed

\* C10 witness: close() raised for a failed upload that is not the first
\* one, while the uploads finished out of order.
C10_Witness ==
    /\ raised
    /\ wait_idx >= 2
    /\ out_of_order
    /\ write_futures[1].state = "done"

\* The bytes a fresh buffered stream reads from the blob, from position 0.
ReadBack == ReadChunks(BlobBytes(committed_blocks), 0, buffer_size)

\* The blocks submitted for upload, in index order.
Chunks == [i \in DOMAIN write_futures |-> write_futures[i].block]

\* ceil(n / b)
CeilDiv(n, b) == (n + b - 1) \div b

\* C11: after writing N bytes and closing, reading the whole object through
\* a fresh buffered stream on the same path returns exactly the N bytes
\* written, in order.
C11_RoundTrip ==
    wpc = "closed" => ReadBack = Bytes(0, copied)

\* C12: when more than buffer_size bytes are written, close() has submitted
\* exactly ceil(N / B) blocks with the indices 1 .. ceil(N / B); every block
\* holds B bytes except the last, which holds the N - B * (ceil(N / B) - 1)
\* bytes that remain, and the blocks in index order are the bytes written.
\* On a close() that returns, every one of them was uploaded.
C12_ChunksOfBufferSize ==
    (wpc \in {"close_wait", "get_block_list", "put_block_list", "closed",
              "error"} /\ copied > buffer_size) =>
        LET n == CeilDiv(copied, buffer_size)
        IN /\ Len(write_futures) = n
           /\ \A i \in 1 .. n :
                 /\ write_futures[i].seq = i
                 /\ Len(write_futures[i].block) =
                       IF i < n THEN buffer_size
                       ELSE copied - buffer_size * (n - 1)
           /\ Concat(Chunks) = Bytes(0, copied)
           /\ wpc = "closed" =>
                 \A i \in 1 .. n : write_futures[i].state = "done"

\* C12 witness: close() returned after three bytes written with a buffer of
\* two: two blocks, the second of one byte.
C12_Witness ==
    /\ wpc = "closed"
    /\ buffer_size = 2
    /\ copied = 3
    /\ Len(write_futures) = 2
    /\ Len(write_futures[2].block) = 1

\* C13: when all that was written fits in one buffer, close() performs one
\* whole-object write of these bytes; no block is submitted or staged and
\* put_block_list is not called.
C13_FastPathWritesWholeObject ==
    /\ copied + size_left <= buffer_size =>
          /\ write_futures = <<>>
          /\ uncommitted = <<>>
          /\ put_block_list_calls = <<>>
    /\ (wpc = "closed" /\ copied <= buffer_size) =>
          /\ create_blob_calls = <<Bytes(0, copied)>>
          /\ committed_blocks = CreateBlobFromBytes(Bytes(0, copied))
    /\ copied > buffer_size => create_blob_calls = <<>>

\* C13 witness: close() returned after exactly buffer_size bytes were
\* written over a blob that existed, with one whole-object write.
C13_Witness ==
    /\ wpc = "closed"
    /\ buffer_size = 2
    /\ copied = buffer_size
    /\ create_blob_calls = <<Bytes(0, copied)>>
    /\ BlobBytes(committed_blocks) = Bytes(0, copied)

\* ------------------------------------------------------------------------
\* Claims on the raw stream (checked under SpecRaw).
\* ------------------------------------------------------------------------
\* min(len(b), S - p), and 0 when the position is past the end.
ReadCount(n, size, start) ==
    IF start >= size THEN 0
    ELSE IF n < size - start THEN n ELSE size - start

\* C19: readinto(b) at position p of an object of S bytes returns
\* min(len(b), S - p), and 0 at or past the end of the object, where it
\* does not raise; that many leading bytes of b are the bytes of the object
\* from p on, the rest of b is as it was, and the position, which tell()
\* returns, has moved by the count returned.
C19_ReadIntoCount ==
    (raw_result.op = "readinto" /\ raw_result.raised = None) =>
        LET n == raw_result.arg
            start == raw_result.start
            count == raw_result.count
        IN /\ count = ReadCount(n, Len(raw_object), start)
           /\ Len(raw_b) = n
           /\ \A i \in 1 .. count : raw_b[i] = raw_object[start + i]
           /\ \A i \in (count + 1) .. n : raw_b[i] = 0
           /\ raw_seek = start + count
           /\ raw_result.tell # -1 => raw_result.tell = start + count

\* C19 witness: a readinto of 3 bytes at position 3 of an object of 4 bytes
\* returned 1, with the last byte of the object at the start of b, and tell()
\* then returned 4.
C19_Witness ==
    /\ raw_result.op = "readinto"
    /\ Len(raw_object) = 4
    /\ raw_result.arg = 3
    /\ raw_result.start = 3
    /\ raw_result.count = 1
    /\ raw_b = <<4, 0, 0>>
    /\ raw_result.tell = 4

\* C19, at the end of the object: readinto returned 0 and left b alone.
C19_EndWitness ==
    /\ raw_result.op = "readinto"
    /\ Len(raw_object) = 4
    /\ raw_result.start = 4
    /\ raw_result.count = 0
    /\ raw_b = Zeros(raw_result.arg)
    /\ raw_result.tell = 4

C20_WriteWitness ==
    /\ raw_result.op = "write"
    /\ raw_result.start = 1
    /\ raw_result.arg = 2
    /\ raw_result.tell = 3

\* C21: write() calls the service not at all; a flush() that follows one
\* or more writes calls the whole-object write of the driver exactly once,
\* with all the bytes written to the stream so far; a flush() with no
\* write since the flush before it does not call it again.
C21_FlushOncePerAccumulation ==
    [][/\ (raw_result' # raw_result /\ raw_result'.op = "write") =>
              raw_calls' = raw_calls /\ raw_object' = raw_object
       /\ (raw_result.op = "write" /\ raw_result'.op = "flush") =>
              /\ raw_calls' = Append(raw_calls, raw_written)
              /\ raw_object' = raw_written
       /\ (raw_result.op = "flush" /\ raw_result'.op = "flush") =>
              raw_calls' = raw_calls]_vars

\* C21 witness: a write of 1 byte, a flush, a write of 2 bytes and a flush
\* made two calls, of 1 and of 3 bytes, and a further flush made none.
C21_Witness ==
    /\ raw_result.op = "flush"
    /\ raw_calls = <<Bytes(0, 1), Bytes(0, 3)>>
    /\ raw_object = Bytes(0, 3)
    /\ ~raw_dirty

\* C22: when a stream opened for writing is closed, all the bytes written
\* to it are the object, whether they were flushed before or not; a close()
\* of a closed stream and a close() that follows a flush() call the
\* service not at all.
C22_CloseFlushesOnce ==
    /\ [](raw_stream = "closed" /\ raw_writable => raw_object = raw_written)
    /\ [][/\ (raw_stream = "closed" /\ raw_result'.op = "close") =>
                 raw_calls' = raw_calls
          /\ (raw_result.op = "flush" /\ raw_result'.op = "close") =>
                 raw_calls' = raw_calls
          /\ (raw_result.op = "write" /\ raw_result'.op = "close") =>
                 raw_calls' = Append(raw_calls, raw_written)]_vars

\* C22 witness: 2 bytes were written and the stream was closed twice; the
\* service was called once, with the 2 bytes.
C22_Witness ==
    /\ raw_stream = "closed"
    /\ raw_result.op = "close"
    /\ raw_result.arg = 1
    /\ raw_written = Bytes(0, 2)
    /\ raw_calls = <<Bytes(0, 2)>>
    /\ raw_object = Bytes(0, 2)

\* C23: a read of n bytes returns no byte without raising only when the
\* service answered that the range cannot be satisfied (416), which it
\* does for a range that starts at or after the end of the object; for
\* every other failure of the service, a missing object (404) included,
\* the read raises, returns no data and leaves the position where it was.
C23_OnlyRangeErrorIsEndOfFile ==
    LET r == raw_result
    IN r.op = "readinto" =>
          /\ (r.raised = None /\ r.count = 0) =>
                 r.status = 416 /\ r.start >= Len(raw_object)
          /\ r.status = 416 => r.raised = None /\ r.count = 0
          /\ r.status \notin {206, 416} =>
                 /\ r.raised # None
                 /\ r.count = 0
                 /\ raw_b = Zeros(r.arg)
                 /\ raw_seek = r.start
          /\ r.status = 404 => r.raised = "ObjectNotFoundError"
          /\ r.status = 206 => r.raised = None /\ r.count > 0

\* C23 witness: the service answered a read inside the object with a
\* server error, and the read raised it.
C23_Witness ==
    /\ raw_result.op = "readinto"
    /\ raw_result.status = 500
    /\ raw_result.raised = "AzureHttpError"
    /\ raw_result.start < Len(raw_object)

\* C23, end of the object: the range started at the end of the object,
\* the service answered 416 and the read returned 0.
C23_EndWitness ==
    /\ raw_result.op = "readinto"
    /\ raw_result.status = 416
    /\ raw_result.raised = None
    /\ raw_result.count = 0
    /\ raw_result.start = Len(raw_object)

\* C23, missing object: the read raised the missing object.
C23_MissingWitness ==
    /\ raw_result.op = "readinto"
    /\ raw_result.status = 404
    /\ raw_result.raised = "ObjectNotFoundError"

\* The mode has one of the characters r, w and a.
HasModeLetter(mode) == \E c \in {"r", "w", "a"} : In(c, mode)

\* C24: the construction of a stream with a mode that has none of r, w and
\* a raises the invalid mode error and leaves no stream; with a mode that
\* has at least one of them it succeeds.
C24_InvalidModeRaises ==
    LET r == raw_result
    IN r.op = "open" =>
          IF HasModeLetter(r.mode)
          THEN r.raised = None /\ raw_stream = "open" /\ raw_mode = r.mode
          ELSE r.raised = "ValueError" /\ raw_stream = "none"

\* C24 witness: the construction with mode "x" raised.
C24_Witness ==
    /\ raw_result.op = "open"
    /\ raw_result.mode = <<"x">>
    /\ raw_result.raised = "ValueError"
    /\ raw_stream = "none"

\* C24, valid mode: the construction with mode "rb" made a stream.
C24_ValidWitness ==
    /\ raw_result.op = "open"
    /\ raw_result.mode = <<"r", "b">>
    /\ raw_result.raised = None
    /\ raw_stream = "open"

\* C25: a stream is writable exactly when its mode has w or a, readable
\* exactly when its mode has r and neither w nor a, exactly one of the two,
\* and seekable; the mode and the three features never change once the
\* stream is constructed.
C25_FeaturesFixedByMode ==
    /\ [](raw_stream # "none" =>
            /\ raw_writable = (In("w", raw_mode) \/ In("a", raw_mode))
            /\ raw_readable = (/\ In("r", raw_mode)
                               /\ ~In("w", raw_mode)
                               /\ ~In("a", raw_mode))
            /\ raw_readable # raw_writable
            /\ raw_seekable)
    /\ [][raw_stream # "none" =>
            UNCHANGED <<raw_mode, raw_readable, raw_writable,
                        raw_seekable>>]_vars

\* C25 witness: a stream constructed with mode "rw" is writable and not
\* readable, and still so when it is closed.
C25_Witness ==
    /\ raw_stream = "closed"
    /\ raw_mode = <<"r", "w">>
    /\ raw_writable
    /\ ~raw_readable
    /\ raw_seekable

\* ------------------------------------------------------------------------
\* Claims on tell() (checked under SpecTell).
\* ------------------------------------------------------------------------
\* C26: tell() of a stream that is not seekable raises the unsupported
\* operation error and returns no position; tell() of a seekable stream
\* returns the position read under the position lock, so that with a
\* worker that updates the position under that lock it returns the
\* position before the update or the one after it, never one between; in
\* both cases tell() changes nothing of the stream.
C26_TellUnderLock ==
    /\ [](~raw_seekable => raw_result.tell = -1)
    /\ [][/\ (~raw_seekable /\ raw_result' # raw_result) =>
                 /\ raw_result'.op = "tell"
                 /\ raw_result'.raised = "UnsupportedOperation"
                 /\ UNCHANGED <<raw_seek, raw_lock, raw_update>>
          /\ (raw_result.tell = -1 /\ raw_result'.tell # -1) =>
                 /\ raw_result'.tell \in
                       IF raw_update.pc = "idle" THEN {raw_seek}
                       ELSE {raw_update.before, raw_update.after}
                 /\ raw_result'.raised = None
                 /\ UNCHANGED <<raw_seek, raw_lock, raw_update>>]_vars

\* C26 witness: a worker moved the position from 1 to 3 and tell()
\* returned 3 after it.
C26_Witness ==
    /\ raw_seekable
    /\ raw_update = [pc |-> "idle", before |-> 1, after |-> 3]
    /\ raw_result.tell = 3

\* C26, not seekable: tell() raised while a worker held the lock.
C26_NotSeekableWitness ==
    /\ ~raw_seekable
    /\ raw_result.op = "tell"
    /\ raw_result.raised = "UnsupportedOperation"
    /\ raw_lock = "worker"

\* ------------------------------------------------------------------------
\* Claims on the memoized accessors (checked under SpecMemo).
\* ------------------------------------------------------------------------
\* C27: the first call of a memoized accessor on an instance runs the
\* method and stores the result in the cache of that instance; every later
\* call returns the stored value and does not run the method again; two
\* accessors, and two instances, never share an entry: a call returns what
\* its own method computes for its own instance.
C27_MemoizedPerAccessor ==
    /\ \A self \in Instances, method \in Methods :
          memo_runs[self][method] <= 1
    /\ (memo_result.method # None /\ memo_result.raised = None) =>
          /\ \E args \in MemoArgs : memo_result.value =
                Computed(memo_result.method, memo_result.self, args)
          /\ memo_runs[memo_result.self][memo_result.method] = 1
          /\ memo_result.ran =>
                memo_cache[memo_result.self][CacheKey(memo_result.method)]
                    = memo_result.value

\* C27 for accessors with different names: the same, for every call of an
\* accessor whose name no other accessor called on the instance has.
C27_DistinctNames ==
    /\ \A self \in Instances, method \in Methods :
          memo_runs[self][method] <= 1
    /\ (/\ memo_result.method # None
        /\ memo_result.raised = None
        /\ \A other \in Methods \ {memo_result.method} :
              MethodName(other) = MethodName(memo_result.method) =>
                  memo_runs[memo_result.self][other] = 0) =>
          /\ \E args \in MemoArgs : memo_result.value =
                Computed(memo_result.method, memo_result.self, args)
          /\ memo_runs[memo_result.self][memo_result.method] = 1

\* C27 witness: both accessors were called on both instances, each method
\* ran once for each, and the last call returned the stored value.
C27_Witness ==
    /\ \A self \in Instances :
          /\ memo_runs[self]["client"] = 1
          /\ memo_runs[self]["size"] = 1
          /\ memo_runs[self]["base_client"] = 0
    /\ memo_result.method = "size"
    /\ ~memo_result.ran

\* ------------------------------------------------------------------------
\* Claims on the read path of the buffered stream (checked under SpecRead).
\* ------------------------------------------------------------------------
\* The chunks prefetched last that the position has not passed the end of.
Unconsumed ==
    {c \in 0 .. Len(rd_object) :
        /\ c = ChunkStart(c)
        /\ c >= ChunkStart(rd_seek)
        /\ c < rd_end
        /\ Min(c + rd_buffer_size, Len(rd_object)) > rd_seek}

\* C28: the reads made since the stream was opened or sought return the
\* bytes of the object from that position on, in ascending order, without
\* gap or duplicate, whatever order the prefetch tasks complete in, and a
\* read(n) returns n bytes or all up to the end of the object; the tasks
\* of the chunks prefetched and not consumed to their end are all in the
\* window, in the order of their chunks.
C28_ReadsInOrder ==
    /\ rd_out = SubSeq(rd_object, rd_base + 1, rd_base + Len(rd_out))
    /\ rd_seek = rd_base + Len(rd_out)
    /\ rd_result.op = "read" =>
          rd_result.data =
              SubSeq(rd_object, rd_result.start + 1,
                     Min(rd_result.start + rd_result.arg, Len(rd_object)))
    /\ {rd_window[i].start : i \in DOMAIN rd_window} = Unconsumed
    /\ \A i \in DOMAIN rd_window :
          rd_window[i].start = ChunkStart(rd_seek) + (i - 1) * rd_buffer_size

\* C28 witness: with chunks of 1 byte a read of 2 bytes at position 1
\* returned bytes 2 and 3 while a task of the window still ran.
C28_Witness ==
    /\ rd_buffer_size = 1
    /\ rd_result.op = "read"
    /\ rd_result.start = 1
    /\ rd_result.data = <<2, 3>>
    /\ rd_result.pending
    /\ rd_out = <<1, 2, 3>>

\* C29: the first read after a seek(p) outside the window returns the
\* bytes of the object from p on, and no read ever returns a byte of a
\* task that was invalidated, also when the task completed after the seek:
\* its result enters no task of the window.
C29_SeekInvalidatesWindow ==
    /\ \A i \in DOMAIN rd_window : rd_window[i].src # "orphan"
    /\ ~rd_call.stale
    /\ ~rd_result.stale
    /\ (rd_result.op = "read" /\ rd_result.after_seek) =>
          /\ rd_result.start = rd_base
          /\ rd_result.data =
                SubSeq(rd_object, rd_base + 1,
                       Min(rd_base + rd_result.arg, Len(rd_object)))

\* C29 witness: after a seek to 3, outside the window, a task of the old
\* position completed, and the read that followed returned byte 4.
C29_Witness ==
    /\ rd_result.op = "read"
    /\ rd_result.after_seek
    /\ rd_late
    /\ rd_result.start = 3
    /\ rd_result.data = <<4>>

\* ------------------------------------------------------------------------
\* Claims on copy (checked under SpecCopy).
\* ------------------------------------------------------------------------
\* C30: a copy between two different paths of one mounted system calls the
\* copy of the system; a copy between paths of different systems does not
\* call it and copies the streams; when the copy of the system raises the
\* unsupported operation error the streams are copied and the copy
\* succeeds all the same; in all these cases the destination has the
\* content of the source afterwards. A copy of a path to itself raises
\* the same file error and copies nothing.
C30_CopyUsesSystemCopy ==
    LET r == cp_result
    IN r.op = "copy" =>
          IF r.src = r.dst
          THEN r.raised = "SameFileError" /\ ~r.called /\ ~r.streamed
          ELSE /\ r.raised = None
               /\ cp_objects[r.dst] = cp_objects[r.src]
               /\ r.called =
                     (/\ SystemOf(r.src) = SystemOf(r.dst)
                      /\ SystemOf(r.src) \in CopySystems)
               /\ r.streamed = (~r.called \/ r.raise_on_copy)

\* C30 witness: the copy of the system raises, and a copy between its two
\* paths called it, then copied the streams: the destination has the
\* content of the source and system.copied is not set.
C30_Witness ==
    /\ cp_result.op = "copy"
    /\ cp_result.src = "dummy_read://file.txt"
    /\ cp_result.dst = "dummy_read://file.txt2"
    /\ cp_result.raise_on_copy
    /\ cp_result.called
    /\ cp_result.streamed
    /\ cp_result.raised = None
    /\ cp_objects["dummy_read://file.txt2"] = <<1>>
    /\ ~cp_copied["dummy_read"]

\* C30, different systems: the copy of no system was called.
C30_OtherSystemWitness ==
    /\ cp_result.op = "copy"
    /\ cp_result.src = "dummy_read://file.txt"
    /\ cp_result.dst = "dummy_read2://file.txt"
    /\ ~cp_result.called
    /\ cp_result.streamed
    /\ cp_copied = [system \in CopySystems |-> FALSE]

\* C30, same file: the copy raised.
C30_SameFileWitness ==
    /\ cp_result.op = "copy"
    /\ cp_result.src = "dummy_read://file.txt"
    /\ cp_result.dst = "dummy_read://file.txt"
    /\ cp_result.raised = "SameFileError"

\* ------------------------------------------------------------------------
\* Claims on the implicit mount and the lock (checked under SpecRegistry
\* and SpecThreads).
\* ------------------------------------------------------------------------
\* C31: after get_instance has run an implicit mount for a name, a mounted
\* root matches the name, so that a later get_instance of the name with no
\* parameters finds it, mounts nothing more and constructs no more system:
\* one system is constructed for the name.
C31_ImplicitMountCoversName ==
    \A t \in Threads :
        (thread[t].pc = "gi_return" /\ FoundNone(thread[t]))
        => Lookup(MOUNTED, thread[t].name) # 0

\* C32: _MOUNT_LOCK is held by a thread only while it is inside the with
\* block of get_instance, running the implicit mount: a thread whose call
\* has returned or raised, or that is past the with block, does not hold
\* it.  The with block of mount, entered by the thread that holds the lock
\* already, ends; and under fair scheduling each thread that waits to enter
\* the with block of mount enters it.
C32_LockReleased ==
    /\ [](\A t \in Threads :
            /\ lock_owner = t
                  => thread[t].pc = "m_insert" /\ thread[t].in_get_instance
            /\ (returned # NoResult /\ returned.thread = t)
                  => lock_owner # t /\ thread[t].pc = "idle")
    /\ \A t \in Threads :
          (thread[t].pc = "m_insert") ~> (thread[t].pc # "m_insert")

\* C32 witness: one thread holds the lock for the implicit mount of its
\* get_instance while the other one waits to enter the with block of its
\* mount.
C32_Witness ==
    /\ lock_owner = "t1"
    /\ thread["t1"].pc = "m_insert"
    /\ thread["t1"].in_get_instance
    /\ thread["t2"].pc = "m_insert"
    /\ ~thread["t2"].in_get_instance

\* C32, failure: the implicit mount of a get_instance raised while a
\* system was mounted, and the lock is free.
C32_RaisedWitness ==
    /\ returned.kind = "SystemError"
    /\ returned.in_get_instance
    /\ MOUNTED # <<>>
    /\ lock_owner = None

\* C33: the stream that get_instance returns for the raw or buffered class
\* is given the system cached by the storage_info (under
\* 'pycosio.system_cached' in its storage parameters) exactly when the
\* caller gave no parameters or parameters equal to the stored ones
\* (same_parameters, lines 52-58); whatever calls came before, a stream
\* asked for with other parameters is not given the cached system.
C33_CachedDriverIffSameConfig ==
    returned.kind = "stream"
    => ((/\ ~returned.constructed
         /\ returned.system = infos[returned.info].system_cached)
        <=> returned.same_parameters)

\* ------------------------------------------------------------------------
\* Claim on the committed block list (checked under SpecWrite).
\* ------------------------------------------------------------------------
\* C34: the block list that close() passes to put_block_list holds the ids
\* of the blocks submitted by this stream, in the order of submission, and
\* no other id; on a blob that had committed blocks before the stream was
\* opened, the blob then holds the blocks of this stream alone.
C34_CommitOwnBlocksOnly ==
    \A k \in DOMAIN put_block_list_calls :
        /\ put_block_list_calls[k] =
              [i \in DOMAIN write_futures |-> write_futures[i].block_id]
        /\ wpc = "closed"
              => [i \in DOMAIN committed_blocks |-> committed_blocks[i].id]
                    = put_block_list_calls[k]

\* ------------------------------------------------------------------------
\* Claim on the errors of memoized accessors (checked under SpecMemo).
\* ------------------------------------------------------------------------
\* The entry of the cache of an instance that an accessor reads and writes.
Entry(cache, self, method) == cache[self][CacheKey(method)]

\* C35: when the method of a memoized accessor raises, the caller gets the
\* error and the cache of the instance has no value for the accessor, and
\* the next call of the accessor runs the method again; a value that is
\* stored is neither changed nor removed by a later call, whatever its
\* arguments; and a call leaves the entries of the other accessors, and of
\* the other instances, as they were.
C35_RaiseStoresNothing ==
    /\ [](memo_result.raised # None
            => /\ memo_result.ran
               /\ memo_result.value = NoValue
               /\ Entry(memo_cache, memo_result.self, memo_result.method)
                     = NoValue)
    /\ [][LET r == memo_result'
          IN /\ (/\ memo_result.raised # None
                 /\ r.self = memo_result.self
                 /\ r.method = memo_result.method) => r.ran
             /\ \A self \in Instances, name \in MethodNames :
                   memo_cache[self][name] # NoValue
                      => memo_cache'[self][name] = memo_cache[self][name]
             /\ \A self \in Instances, method \in Methods :
                   (self # r.self \/ method # r.method)
                      => Entry(memo_cache', self, method)
                            = Entry(memo_cache, self, method)]_vars

\* C35 for accessors with different names: the same, where the other
\* accessors are those whose method has another name.
C35_OtherNames ==
    /\ [](memo_result.raised # None
            => /\ memo_result.ran
               /\ memo_result.value = NoValue
               /\ Entry(memo_cache, memo_result.self, memo_result.method)
                     = NoValue)
    /\ [][LET r == memo_result'
          IN /\ (/\ memo_result.raised # None
                 /\ r.self = memo_result.self
                 /\ r.method = memo_result.method) => r.ran
             /\ \A self \in Instances, name \in MethodNames :
                   memo_cache[self][name] # NoValue
                      => memo_cache'[self][name] = memo_cache[self][name]
             /\ \A self \in Instances, method \in Methods :
                   (self # r.self \/ MethodName(method) # MethodName(r.method))
                      => Entry(memo_cache', self, method)
                            = Entry(memo_cache, self, method)]_vars

\* ------------------------------------------------------------------------
\* Claim on the construction of Azure blob streams (checked under SpecBlob).
\* ------------------------------------------------------------------------
\* The blob type that the claim names for a construction of a generic
\* class: that of the object under the name, else the blob_type argument,
\* else the default of the system.
ExpectedBlobType(r) ==
    IF bl_objects[r.name] # None THEN bl_objects[r.name]
    ELSE IF r.blob_type # None THEN r.blob_type
    ELSE DefaultBlobType

\* C36: the construction of a generic Azure blob class for a name makes an
\* instance of the class registered for the blob type of the object under
\* that name when there is one, else for the blob_type argument, else for
\* the default blob type of the system; the construction of a subclass
\* makes an instance of that subclass; the storage_parameters dict of the
\* caller is as it was.
C36_SubclassOfStoredBlobType ==
    LET r == bl_result
    IN r.op = "new"
       => /\ r.made = IF r.cls = Generic(r.cls.kind)
                      THEN Registered(r.cls.kind, ExpectedBlobType(r))
                      ELSE r.cls
          /\ r.caller = r.given

\* C36 without the object of the name: the same, for every construction
\* where the path 'name' and the name have the same object or none.
C36_SameHeader ==
    LET r == bl_result
    IN (r.op = "new" /\ bl_objects[r.name] = bl_objects["name"])
       => /\ r.made = IF r.cls = Generic(r.cls.kind)
                      THEN Registered(r.cls.kind, ExpectedBlobType(r))
                      ELSE r.cls
          /\ r.caller = r.given
====
